---------------------------- MODULE Spec2Model ----------------------------
(***************************************************************************)
(* A model of the steem-rpc-scanner: the bounded retry wrapper around one  *)
(* RPC call and the identify classifier (rpcscanner/rpc.py), the staged    *)
(* scan pipeline and the table sorting of RPCScanner                       *)
(* (rpcscanner/RPCScanner.py), MethodTests.test_all                        *)
(* (rpcscanner/MethodTests.py) and the scoring function score_node         *)
(* (health.py).                                                            *)
(***************************************************************************)
EXTENDS Integers, Sequences, FiniteSets, TLC

VARIABLES
    task,          \* asyncio tasks: task id -> state of the retry wrapper running in it
    node_status,   \* RPCScanner.node_status: host -> per-node accumulator
    ident_nodes,   \* RPCScanner.ident_nodes: hosts whose identify task was queued
    up_nodes,      \* RPCScanner.up_nodes: <<host, srvtype>> of the identified nodes
    ver_nodes,     \* RPCScanner.ver_nodes: hosts with a queued version call
    prop_nodes,    \* RPCScanner.prop_nodes: hosts with a queued block-info call
    pt_list,       \* scan_nodes' pt_list: <<host, method>> of the queued method tests
    pc,            \* where the scan_nodes coroutine is: [stage, idx]
    plugins_on,    \* settings.plugins
    max_score,     \* settings.MAX_SCORE
    faults,        \* how many non-nominal replies the nodes have given so far
    probe,         \* the NodeStatus handed to score_node
    scored,        \* what score_node returned for probe
    ident,         \* a call of _ident_response: its argument and what it returned
    mt,            \* a call of MethodTests.test_all: its arguments, tasks and result
    table          \* a call of prepare_table: the nodes, the arguments, the rows returned

vars == <<task, node_status, ident_nodes, up_nodes, ver_nodes, prop_nodes,
          pt_list, pc, plugins_on, max_score, faults, probe, scored, ident, mt, table>>

\* the state of the functions called on their own
libVars == <<ident, mt, table>>

\* no call of them made
NoCall == [pc |-> "idle"]

scanVars == <<node_status, ident_nodes, up_nodes, ver_nodes, prop_nodes, pt_list, pc>>

--------------------------------------------------------------------------
(* Program constants (defaults of rpcscanner/settings.py) *)

MAX_TRIES == 3

\* the default of settings.MAX_SCORE
MAX_SCORE == 50

GOOD_RETURN_CODE == 0

BAD_RETURN_CODE == 8

--------------------------------------------------------------------------
(* Bounds of the model *)

\* how many hosts the scanned node list holds
NumNodes == 2

\* how many replies other than the nominal one (a failed attempt, a 426, a
\* server type other than jussi, a malformed or stale payload, a failed
\* validation) the nodes give during one scan
MaxFaults == 3

HostNames == <<"https://a", "http://b", "https://c", "http://d">>

nodes == SubSeq(HostNames, 1, NumNodes)

Hosts == {nodes[i] : i \in 1..Len(nodes)}

\* the enabled method tests (settings.TEST_PLUGINS_LIST)
TEST_PLUGINS_LIST == <<"condenser_api.get_accounts", "condenser_api.get_blog">>

Methods == {TEST_PLUGINS_LIST[i] : i \in 1..Len(TEST_PLUGINS_LIST)}

NoMethod == "-"

--------------------------------------------------------------------------
(* The retry wrapper: NodePlug._try_node and NodePlug._ident_jussi *)

TaskKinds == {"ident", "filter", "config", "props", "plugin"}

TaskIds == ({"ident", "filter", "config", "props"} \X Hosts \X {NoMethod})
              \cup ({"plugin"} \X Hosts \X Methods)

NoTask == [pc |-> "none", tries |-> 0, calls |-> 0, fails |-> 0, sleeps |-> 0,
           ws |-> FALSE, res |-> "-", last |-> "-"]

\* Enter with the counter bumped twice per attempt.
EnterCountsTwice(tk) ==
    IF tk.tries >= MAX_TRIES
    THEN [tk EXCEPT !.pc = "dead", !.ws = FALSE]
    ELSE [tk EXCEPT !.pc = "run", !.tries = @ + 2, !.calls = @ + 1]

\* Enter with the guard off by one: an attempt is made at tries = MAX_TRIES.
EnterPastLimit(tk) ==
    IF tk.tries > MAX_TRIES
    THEN [tk EXCEPT !.pc = "dead", !.ws = FALSE]
    ELSE [tk EXCEPT !.pc = "run", !.tries = @ + 1, !.calls = @ + 1]

\* Entry of _try_node / _ident_jussi with the given tries: the guard on
\* MAX_TRIES, then tries += 1 and the request is sent.
Enter(tk) ==
    IF tk.tries >= MAX_TRIES
    THEN [tk EXCEPT !.pc = "dead", !.ws = FALSE]
    ELSE [tk EXCEPT !.pc = "run", !.tries = @ + 1, !.calls = @ + 1]

\* loop.create_task(rpc(...)) / loop.create_task(identify_node(...))
NewTask == Enter(NoTask)

\* The attempt returned: RPCBenchResult(result, time_taken, tries)
OnSuccess(tk, payload) == [tk EXCEPT !.pc = "ok", !.res = payload]

\* On426 without the 426 test: the error is retried like any other.
On426Retried(tk) == [tk EXCEPT !.pc = "sleep", !.fails = @ + 1, !.last = "426"]

\* The 426 test of the except clause: raise ServerDead('... only supports websockets')
On426(tk) == [tk EXCEPT !.pc = "dead", !.ws = TRUE, !.last = "426"]

\* OnError that retries at once, without the delay.
OnErrorNoSleep(tk, err) ==
    Enter([tk EXCEPT !.fails = @ + 1, !.last = IF err = "426" THEN "426" ELSE "error"])

\* OnError that also counts the failed attempt as one more try.
OnErrorCountsTry(tk, err) ==
    [tk EXCEPT !.pc = "sleep", !.fails = @ + 1, !.tries = @ + 1,
               !.last = IF err = "426" THEN "426" ELSE "error"]

\* Any other exception, whatever its kind: await asyncio.sleep(RETRY_DELAY)
OnError(tk, err) ==
    [tk EXCEPT !.pc = "sleep", !.fails = @ + 1,
               !.last = IF err = "426" THEN "426" ELSE "error"]

\* AfterSleep that re-enters with the counter reset, so the guard never trips.
AfterSleepResets(tk) == Enter([tk EXCEPT !.sleeps = @ + 1, !.tries = 0])

\* asyncio.sleep returned: the recursive call with the same tries
AfterSleep(tk) == Enter([tk EXCEPT !.sleeps = @ + 1])

--------------------------------------------------------------------------
(* Classification of the identify probe: NodePlug._ident_response *)

\* A response body by the markers the classifier looks at.
\*   jussi_num : the decoded JSON object has a jussi_num key
\*   errmsg    : "eof" when error.message = 'End Of File:stringstream',
\*               "other" for another error.message, "none" without an error
\*               member, "nodict" for an error member that holds no message
\*               (null, a number, a string or list naming 'message')
\*   eoftext   : the text holds 'end of file:stringstream' (any case)
\*   legacytext: the text holds 'could not call api' (any case)
Bodies == [jussi_num : BOOLEAN, errmsg : {"none", "other", "eof", "nodict"},
           eoftext : BOOLEAN, legacytext : BOOLEAN]

NoMarkers == [jussi_num |-> FALSE, errmsg |-> "none", eoftext |-> FALSE, legacytext |-> FALSE]

\* IdentResponse that looks for jussi_num before the error message.
IdentResponseJussiFirst(body, decoded) ==
    IF decoded /\ body.errmsg = "nodict" THEN "raise"
    ELSE IF decoded /\ body.jussi_num THEN "jussi"
    ELSE IF body.eoftext \/ (body.errmsg = "eof") THEN "appbase"
    ELSE IF body.legacytext THEN "legacy"
    ELSE "None"

\* _ident_response(res) for a dict (decoded = TRUE: the JSON keys are visible)
\* or for str(content) of an error response (decoded = FALSE: json.loads of
\* the bytes repr fails, only the text is searched).  "raise" is the
\* TypeError of `'message' in j['error']` / `j['error']['message']` on an
\* error member that is no dict.
IdentResponse(body, decoded) ==
    IF decoded /\ body.errmsg = "nodict" THEN "raise"
    ELSE IF decoded /\ body.errmsg = "eof" THEN "appbase"
    ELSE IF decoded /\ body.jussi_num THEN "jussi"
    ELSE IF body.eoftext \/ (body.errmsg = "eof") THEN "appbase"
    ELSE IF body.legacytext THEN "legacy"
    ELSE "None"

\* What the nodes answer to the identify GET.
IdentReplies ==
    { [http |-> "200", body |-> [NoMarkers EXCEPT !.jussi_num = TRUE]],
      [http |-> "200", body |-> [NoMarkers EXCEPT !.errmsg = "eof"]],
      [http |-> "500", body |-> [NoMarkers EXCEPT !.legacytext = TRUE]],
      [http |-> "200", body |-> NoMarkers],
      [http |-> "200", body |-> [NoMarkers EXCEPT !.errmsg = "nodict"]],
      [http |-> "500", body |-> NoMarkers],
      [http |-> "426", body |-> NoMarkers],
      [http |-> "neterr", body |-> NoMarkers] }

\* One attempt of _ident_jussi, lines 212-240, on the reply r.
IdentAttempt(tk, r) ==
    CASE r.http = "426"    -> On426(tk)
      [] r.http = "neterr" -> OnError(tk, "neterr")
      [] r.http = "200"    -> IF IdentResponse(r.body, TRUE) = "raise"
                              THEN OnError(tk, "TypeError")
                              ELSE OnSuccess(tk, IdentResponse(r.body, TRUE))
      [] OTHER             -> IF IdentResponse(r.body, FALSE) = "None"
                              THEN OnError(tk, "http")
                              ELSE OnSuccess(tk, IdentResponse(r.body, FALSE))

\* What the nodes answer to a JSON-RPC POST: the payload of a result, or
\* how the attempt failed.
RpcErrors == {"neterr", "rpcerror"}

Payloads(kind) ==
    CASE kind = "filter" -> {"props"}
      [] kind = "config" -> {"version", "noversion", "notdict"}
      [] kind = "props"  -> {"fresh", "stale31", "stale61", "stale301", "stale601",
                             "stale3601", "stale86401", "notime", "notdict"}
      [] kind = "plugin" -> {"valid", "invalid"}
      [] OTHER           -> {}

RpcReplies(kind) ==
    [ok : {TRUE}, what : Payloads(kind)] \cup [ok : {FALSE}, what : RpcErrors \cup {"426"}]

\* RpcAttempt that gives up on a JSON-RPC error response at once.
RpcAttemptErrorFinal(tk, r) ==
    IF r.ok THEN OnSuccess(tk, r.what)
    ELSE IF r.what = "426" THEN On426(tk)
    ELSE IF r.what = "rpcerror" THEN [tk EXCEPT !.pc = "dead", !.ws = FALSE, !.last = "error"]
    ELSE OnError(tk, r.what)

\* One attempt of _try_node, lines 159-178, on the reply r.
RpcAttempt(tk, r) ==
    IF r.ok THEN OnSuccess(tk, r.what)
    ELSE IF r.what = "426" THEN On426(tk)
    ELSE OnError(tk, r.what)

Kind(t) == t[1]

HostOf(t) == t[2]

MethodOf(t) == t[3]

Replies(kind) == IF kind = "ident" THEN IdentReplies ELSE RpcReplies(kind)

\* Finished that takes only a returned call for done: an await on a task
\* that raised never resumes.
FinishedOnlyOk(tk) == tk.pc = "ok"

\* The wrapper's state after the attempt in flight got the reply r.
Attempt(kind, tk, r) == IF kind = "ident" THEN IdentAttempt(tk, r) ELSE RpcAttempt(tk, r)

Finished(tk) == tk.pc \in {"ok", "dead"}

\* The reply a healthy, in-sync node behind jussi gives.
Nominal(kind, r) ==
    CASE kind = "ident"  -> r.http = "200" /\ r.body.jussi_num
      [] kind = "filter" -> r.ok
      [] kind = "config" -> r.ok /\ r.what = "version"
      [] kind = "props"  -> r.ok /\ r.what = "fresh"
      [] OTHER           -> r.ok /\ r.what = "valid"

--------------------------------------------------------------------------
(* One call of each wrapper on its own: rpc(host, method) and              *)
(* identify_node(host), as health.py and MethodTests issue them.           *)

CallIds == {<<"ident", nodes[1], NoMethod>>, <<"props", nodes[1], NoMethod>>,
            <<"plugin", nodes[1], TEST_PLUGINS_LIST[1]>>}

NoProbe == [raw |-> {}, tries |-> <<>>, plugins |-> <<>>, broken_plugins |-> <<>>,
            block_time |-> "error"]

NoScore == [min_score |-> 0, result |-> <<-1, -1, "-">>]

InitCalls ==
    /\ ident = NoCall /\ mt = NoCall /\ table = NoCall
    /\ task = [t \in TaskIds |-> IF t \in CallIds THEN NewTask ELSE NoTask]
    /\ node_status = <<>>
    /\ ident_nodes = <<>>
    /\ up_nodes = <<>>
    /\ ver_nodes = <<>>
    /\ prop_nodes = <<>>
    /\ pt_list = <<>>
    /\ pc = [stage |-> "idle", idx |-> 0]
    /\ plugins_on = FALSE
    /\ max_score = MAX_SCORE
    /\ faults = 0
    /\ probe = NoProbe
    /\ scored = NoScore

\* The request of the attempt in flight is answered.
CallAttempt(t) ==
    /\ task[t].pc = "run"
    /\ \E r \in Replies(Kind(t)) :
          task' = [task EXCEPT ![t] = Attempt(Kind(t), task[t], r)]
    /\ UNCHANGED <<libVars, scanVars, plugins_on, max_score, faults, probe, scored>>

\* The retry delay is over.
CallSleep(t) ==
    /\ task[t].pc = "sleep"
    /\ task' = [task EXCEPT ![t] = AfterSleep(task[t])]
    /\ UNCHANGED <<libVars, scanVars, plugins_on, max_score, faults, probe, scored>>

NextCalls == \E t \in CallIds : CallAttempt(t) \/ CallSleep(t)

SpecCalls == InitCalls /\ [][NextCalls]_vars

\* C1: a call of _try_node that failed k < MAX_TRIES times with a non-426
\* error and then succeeded returns a result whose tries field is k + 1.
C1_SuccessCount ==
    \A t \in TaskIds :
        (Kind(t) # "ident" /\ task[t].pc = "ok") =>
            /\ task[t].fails < MAX_TRIES
            /\ task[t].tries = task[t].fails + 1

C1_Witness ==
    \E t \in TaskIds :
        /\ Kind(t) # "ident"
        /\ task[t].pc = "ok"
        /\ task[t].fails = MAX_TRIES - 1
        /\ task[t].tries = MAX_TRIES

\* C2: a call of either wrapper whose attempts all fail with a non-426 error
\* ends in ServerDead after exactly MAX_TRIES attempts, and no call ever
\* makes more than MAX_TRIES attempts.
C2_Exhaustion ==
    \A t \in TaskIds :
        /\ task[t].calls <= MAX_TRIES
        /\ (task[t].fails = MAX_TRIES => task[t].pc \in {"sleep", "dead"})
        /\ (task[t].pc = "dead" /\ ~task[t].ws) =>
              (task[t].calls = MAX_TRIES /\ task[t].fails = MAX_TRIES)

C2_Witness ==
    /\ \E t \in TaskIds : Kind(t) = "ident" /\ task[t].pc = "dead" /\ ~task[t].ws
                            /\ task[t].calls = MAX_TRIES
    /\ \E t \in TaskIds : Kind(t) # "ident" /\ task[t].pc = "dead" /\ ~task[t].ws
                            /\ task[t].calls = MAX_TRIES

\* C3: the step in which an attempt of either wrapper fails with 426 ends the
\* call with the 'only supports websockets' ServerDead, sends no request and
\* sleeps no delay, and nothing of the call changes afterwards.
C3_NoRetryOn426 ==
    [][\A t \in TaskIds :
          task'[t].last = "426" =>
              /\ task'[t].pc = "dead" /\ task'[t].ws
              /\ task'[t].calls = task[t].calls
              /\ task'[t].sleeps = task[t].sleeps
              /\ (task[t].last = "426" => task'[t] = task[t])]_vars

C3_Witness ==
    /\ \E t \in TaskIds : Kind(t) = "ident" /\ task[t].last = "426" /\ task[t].fails = 1
    /\ \E t \in TaskIds : Kind(t) # "ident" /\ task[t].last = "426" /\ task[t].fails = 0

\* C4 as stated: a call that ended on a 426 has an attempts counter of 1,
\* whichever attempt raised it.
C4_CounterStaysOne ==
    \A t \in TaskIds :
        (task[t].pc = "dead" /\ task[t].ws) => task[t].tries = 1

\* C4 amended: a call that ended on a 426 has an attempts counter equal to
\* the number of the attempt that raised it, one more than the failed
\* attempts before it; it is 1 exactly when the first attempt raised it.
C4_CounterIsAttemptNumber ==
    \A t \in TaskIds :
        (task[t].pc = "dead" /\ task[t].ws) =>
            /\ task[t].tries = task[t].fails + 1
            /\ task[t].tries = task[t].calls
            /\ (task[t].tries = 1 <=> task[t].fails = 0)

C4_Witness ==
    \E t \in TaskIds :
        /\ Kind(t) # "ident" /\ task[t].pc = "dead" /\ task[t].ws
        /\ task[t].tries = MAX_TRIES

--------------------------------------------------------------------------
(* NodeStatus (rpcscanner/RPCScanner.py) and score_node (health.py) *)

\* ns['tries'][f'plugin_{plugin_name}']
PluginKey(m) == "plugin_" \o m

RECURSIVE SumOver(_, _)
SumOver(f, keys) ==
    IF keys = {} THEN 0
    ELSE LET k == CHOOSE x \in keys : TRUE
         IN f[k] + SumOver(f, keys \ {k})

\* status that counts a recorded identify result as a stage, too.
status_with_ident(n) ==
    Cardinality(n.raw) + (IF "ident" \in DOMAIN n.tries THEN 1 ELSE 0)

\* NodeStatus.status: len(self.raw)
status(n) == Cardinality(n.raw)

\* NodeStatus.total_tries
total_tries(n) == SumOver(n.tries, DOMAIN n.tries)

\* NodeStatus.total_retries: the tries of every entry that needed more than one
total_retries(n) ==
    SumOver(n.tries, {k \in DOMAIN n.tries : n.tries[k] > 1})

\* NodeStatus.plugin_counts: (how many worked, how many were tested)
plugin_counts(n) == <<Len(n.plugins), Len(n.plugins) + Len(n.broken_plugins)>>

\* Seconds between scanned_at and the block time a props payload carries.
BehindOf(tag) ==
    CASE tag = "fresh"      -> -2
      [] tag = "same"       -> 0
      [] tag = "stale30"    -> 30
      [] tag = "stale31"    -> 31
      [] tag = "stale61"    -> 61
      [] tag = "stale301"   -> 301
      [] tag = "stale601"   -> 601
      [] tag = "stale3601"  -> 3601
      [] tag = "stale86400" -> 86400
      [] tag = "stale86401" -> 86401

TimeTags == {"fresh", "same", "stale30", "stale31", "stale61", "stale301", "stale601",
             "stale3601", "stale86400", "stale86401"}

\* __post_init__ turns the 'error' placeholder into None: no block time.
HasBlockTime(n) == n.block_time \in TimeTags

\* NodeStatus.time_behind in seconds (only read when HasBlockTime)
time_behind(n) == BehindOf(n.block_time)

\* int(MAX_SCORE * p / 100) for the percentages score_node uses
Pct(p) == (max_score * p) \div 100

\* lines 368-375: the score a node starts from
BaseScore(st) ==
    IF st = 1 THEN max_score - 10
    ELSE IF st = 2 THEN max_score - 5
    ELSE max_score

\* lines 377-381: the score before the staleness penalty
PrePenalty(n, plugins) ==
    LET tr    == total_retries(n)
        tried == plugin_counts(n)[1]
        total == plugin_counts(n)[2]
        s1    == BaseScore(status(n)) - (IF tr > 0 THEN tr * 2 ELSE 0)
    IN  s1 - (IF plugins /\ tried < total THEN (total - tried) * 4 ELSE 0)

\* StalePenalty without the tier above one hour.
StalePenaltyNoHourTier(secs) ==
    IF secs > 86400 THEN Pct(80)
    ELSE IF secs > 600 THEN Pct(30)
    ELSE IF secs > 300 THEN Pct(15)
    ELSE IF secs > 60 THEN Pct(10)
    ELSE IF secs > 30 THEN Pct(5)
    ELSE 0

\* lines 386-391
StalePenalty(secs) ==
    IF secs > 86400 THEN Pct(80)
    ELSE IF secs > 3600 THEN Pct(50)
    ELSE IF secs > 600 THEN Pct(30)
    ELSE IF secs > 300 THEN Pct(15)
    ELSE IF secs > 60 THEN Pct(10)
    ELSE IF secs > 30 THEN Pct(5)
    ELSE 0

\* lines 395-398: three successive ifs, each overwriting the one before
Rescue(score, pre) ==
    IF score < Pct(10)
    THEN LET a == IF pre > Pct(80) THEN Pct(20) ELSE score
             b == IF pre > Pct(50) THEN Pct(10) ELSE a
         IN  IF pre > Pct(20) THEN Pct(5) ELSE b
    ELSE score

\* lines 384-398: the score after the staleness penalty and the rescue
AfterStaleness(n, pre) ==
    IF HasBlockTime(n) /\ time_behind(n) # 0
    THEN Rescue(pre - StalePenalty(time_behind(n)), pre)
    ELSE pre

\* lines 400-405: clamp at 0, return code and status name
Labels(score, min_score) ==
    <<score,
      IF score < min_score THEN BAD_RETURN_CODE ELSE GOOD_RETURN_CODE,
      IF score >= max_score THEN "PERFECT"
      ELSE IF score < min_score THEN "BAD" ELSE "GOOD">>

\* Clamp that lets a negative score through.
ClampNone(s) == s

\* line 401: score = 0 if score < 0 else score
Clamp(s) == IF s < 0 THEN 0 ELSE s

\* score_node that scores a node without raw data like any other.
score_node_no_dead(min_score, n, plugins) ==
    Labels(Clamp(AfterStaleness(n, PrePenalty(n, plugins))), min_score)

\* score_node(min_score, n) -> (score, return_code, status_name)
score_node(min_score, n, plugins) ==
    IF status(n) <= 0 THEN <<0, 1, "DEAD">>
    ELSE Labels(Clamp(AfterStaleness(n, PrePenalty(n, plugins))), min_score)

--------------------------------------------------------------------------
(* score_node on its own: every NodeStatus a scan can hand to it *)

RawShapes == {{}, {"init_props"}, {"init_props", "config"}, {"init_props", "props"},
              {"init_props", "config", "props"}}

\* The keys of the tries map of a node with this raw data and these passed tests.
TriesKeys(raw, passed) ==
    {"ident"} \cup (raw \cap {"config", "props"}) \cup {PluginKey(m) : m \in passed}

InOrder(ms) == SelectSeq(TEST_PLUGINS_LIST, LAMBDA m : m \in ms)

ProbesOf(raw, tested, passed) ==
    { [raw |-> raw, tries |-> tr, plugins |-> InOrder(passed),
       broken_plugins |-> InOrder(tested \ passed), block_time |-> bt] :
         tr \in [TriesKeys(raw, passed) -> 1..MAX_TRIES],
         bt \in (IF "props" \in raw THEN TimeTags \cup {"error"} ELSE {"error"}) }

\* NodeStatus objects without raw data built directly, with any measurements.
DeadProbes ==
    UNION { { [raw |-> {}, tries |-> tr, plugins |-> InOrder(passed),
               broken_plugins |-> InOrder(Methods \ passed), block_time |-> bt] :
                 tr \in [{"ident", "config", "props"} \cup {PluginKey(m) : m \in passed}
                            -> {1, MAX_TRIES}],
                 bt \in TimeTags \cup {"error"} } : passed \in SUBSET Methods }

\* The method tests MethodTests knows: the default of TEST_PLUGINS_LIST.
METHOD_MAP ==
    <<"account_history_api.get_account_history", "condenser_api.get_account_history",
      "condenser_api.get_accounts", "condenser_api.get_blog", "condenser_api.get_content",
      "condenser_api.get_followers", "condenser_api.get_witness_by_account",
      "bridge.get_trending_topics">>

\* The keys of the tries map, in the order a scan fills it, of a node with
\* this raw data that passed the first j method tests.
HeavyKeys(raw, j) ==
    <<"ident">> \o (IF "config" \in raw THEN <<"config">> ELSE <<>>)
                \o (IF "props" \in raw THEN <<"props">> ELSE <<>>)
                \o [i \in 1..j |-> PluginKey(METHOD_MAP[i])]

\* A tries map: MAX_TRIES for the first a keys, one less for the next b, 1 for the rest.
Pattern(keys, a, b) ==
    [k \in {keys[i] : i \in 1..Len(keys)} |->
        LET i == CHOOSE x \in 1..Len(keys) : keys[x] = k
        IN  IF i <= a THEN MAX_TRIES ELSE IF i <= a + b THEN MAX_TRIES - 1 ELSE 1]

\* Nodes tested with every method of METHOD_MAP, with many tries.
HeavyProbes ==
    UNION { { [raw |-> raw, tries |-> Pattern(HeavyKeys(raw, j), ab[1], ab[2]),
               plugins |-> SubSeq(METHOD_MAP, 1, j),
               broken_plugins |-> SubSeq(METHOD_MAP, j + 1, Len(METHOD_MAP)),
               block_time |-> bt] :
                 ab \in {x \in (0..Len(HeavyKeys(raw, j))) \X (0..Len(HeavyKeys(raw, j))) :
                            x[1] + x[2] <= Len(HeavyKeys(raw, j))},
                 bt \in (IF "props" \in raw THEN TimeTags \cup {"error"} ELSE {"error"}) } :
            raw \in RawShapes \ {{}}, j \in 0..Len(METHOD_MAP) }

ProbeInputs(plugins) ==
    LET tested == IF plugins THEN Methods ELSE {}
    IN  UNION { ProbesOf(raw, tested, passed) :
                   raw \in RawShapes \ {{}}, passed \in SUBSET tested }
          \cup ProbesOf({}, {}, {})
          \cup DeadProbes
          \cup (IF plugins THEN HeavyProbes ELSE {})
          \cup {NoProbe}

\* The default of the MAX_SCORE environment variable and a higher setting.
ScoreSettings == {MAX_SCORE, MAX_SCORE + 21}

\* The min_score arguments: the -s option takes any integer.
MinScores == (-1)..(max_score + 1)

InitScore ==
    /\ ident = NoCall /\ mt = NoCall /\ table = NoCall
    /\ task = [t \in TaskIds |-> NoTask]
    /\ node_status = <<>>
    /\ ident_nodes = <<>>
    /\ up_nodes = <<>>
    /\ ver_nodes = <<>>
    /\ prop_nodes = <<>>
    /\ pt_list = <<>>
    /\ pc = [stage |-> "idle", idx |-> 0]
    /\ plugins_on \in BOOLEAN
    /\ max_score \in ScoreSettings
    /\ faults = 0
    /\ probe \in ProbeInputs(plugins_on)
    /\ scored = NoScore

\* health.scan, health.list_nodes: `if 1 > opt.min_score > MAX_SCORE`, the
\* test after which the command stops with parser.error
min_score_rejected(min_score) == 1 > min_score /\ min_score > max_score

\* score, return_code, status_name = score_node(min_score, n), in a command
\* that got past the test of its min_score option
ScoreNode ==
    /\ scored = NoScore
    /\ \E m \in {1, max_score - 10, max_score, max_score + 1} :
          /\ ~min_score_rejected(m)
          /\ scored' = [min_score |-> m, result |-> score_node(m, probe, plugins_on)]
    /\ UNCHANGED <<libVars, task, scanVars, plugins_on, max_score, faults, probe>>

NextScore == ScoreNode

SpecScore == InitScore /\ [][NextScore]_vars

Score(m, n) == score_node(m, n, plugins_on)[1]

\* probe with one more try recorded for entry k
MoreTries(n, k) == [n EXCEPT !.tries[k] = @ + 1]

\* probe with the passed method test m failed instead, all else as it was
FailedInstead(n, m) ==
    [n EXCEPT !.plugins = SelectSeq(@, LAMBDA x : x # m),
              !.broken_plugins = Append(@, m)]

PassedOf(n) == {n.plugins[i] : i \in 1..Len(n.plugins)}

\* C6: with everything else held fixed, one more try on any entry of the
\* tries map, and one more failed method test, never raise the score
\* score_node returns, the staleness floor-rescue included.
C6_Monotone ==
    \A m \in {1, max_score} :
        /\ \A k \in DOMAIN probe.tries :
              probe.tries[k] < MAX_TRIES => Score(m, MoreTries(probe, k)) <= Score(m, probe)
        /\ \A x \in PassedOf(probe) :
              Score(m, FailedInstead(probe, x)) <= Score(m, probe)

\* C7: a node whose score before the staleness penalty is above 80% of
\* MAX_SCORE and whose block time is more than 24 hours behind gets a final
\* score of at least 20% of MAX_SCORE.
C7_RescueFloor ==
    \A m \in MinScores :
        (/\ status(probe) > 0
         /\ HasBlockTime(probe) /\ time_behind(probe) > 86400
         /\ PrePenalty(probe, plugins_on) > Pct(80))
            => Score(m, probe) >= Pct(20)

\* C9: for a node with raw data, a score below min_score is labelled BAD and
\* returns the bad return code; any other score is labelled PERFECT (at
\* MAX_SCORE) or GOOD and returns the good return code.
C9_LabelMatchesCode ==
    \A m \in MinScores :
        status(probe) > 0 =>
            LET r == score_node(m, probe, plugins_on)
            IN  /\ r[1] < m => (r[3] = "BAD" /\ r[2] = BAD_RETURN_CODE)
                /\ r[1] >= m => (/\ r[3] = (IF r[1] >= max_score THEN "PERFECT" ELSE "GOOD")
                                 /\ r[2] = GOOD_RETURN_CODE)
                /\ r[3] \in {"PERFECT", "GOOD"} => r[2] # BAD_RETURN_CODE

\* C10: a node without raw data scores 0 and is DEAD for every min_score,
\* whatever its tries, method tests and block time are.
C10_DeadScoresZero ==
    /\ \A m \in MinScores :
          status(probe) = 0 => score_node(m, probe, plugins_on) = <<0, 1, "DEAD">>
    /\ (scored # NoScore /\ status(probe) = 0) => scored.result = <<0, 1, "DEAD">>

C10_Witness ==
    /\ scored # NoScore
    /\ status(probe) = 0
    /\ total_retries(probe) > 0
    /\ Len(probe.plugins) > 0 /\ Len(probe.broken_plugins) > 0
    /\ HasBlockTime(probe) /\ time_behind(probe) > 86400
    /\ scored.min_score = 1

--------------------------------------------------------------------------
(* The scan: RPCScanner.scan_nodes and the stages it awaits.  The tasks    *)
(* run concurrently with the scan_nodes coroutine, which takes a step when *)
(* the task it awaits has finished.  The method tests queued are those of  *)
(* TEST_PLUGINS_LIST (SKIP_API_LIST at its default, empty).                *)

\* the per-node dict scan_nodes creates (the fields the scores read, and
\* the ones the stages report)
NewStatus == [raw |-> {}, tries |-> <<>>, plugins |-> <<>>, broken_plugins |-> <<>>,
              block_time |-> "error", version |-> "error", srvtype |-> "err",
              err_reason |-> "None"]

\* d[k] = v on a dict
Put(d, k, v) == [x \in DOMAIN d \cup {k} |-> IF x = k THEN v ELSE d[x]]

T(kind, h) == <<kind, h, NoMethod>>

\* `await task` returned or raised: nothing reads the task again
Awaited(tk, t) == [tk EXCEPT ![t] = [NoTask EXCEPT !.pc = "awaited"]]

\* OnServerDead that takes every ServerDead for the websocket one.
OnServerDeadAlwaysWS(ns, tk) == [ns EXCEPT !.err_reason = "WS Only"]

\* OnServerDead that also discards the raw data recorded so far.
OnServerDeadClearsRaw(ns, tk) ==
    IF tk.ws THEN [ns EXCEPT !.err_reason = "WS Only", !.raw = {}] ELSE [ns EXCEPT !.raw = {}]

\* the `except ServerDead` clause every stage has
OnServerDead(ns, tk) == IF tk.ws THEN [ns EXCEPT !.err_reason = "WS Only"] ELSE ns

\* FilterResult that keeps the response of a node that raised, too.
FilterResultKeepsAll(ns, tk) ==
    [OnServerDead(ns, tk) EXCEPT !.raw = @ \cup {"init_props"}]

\* FilterResult that does not keep the response of the filter call.
FilterResultNoRaw(ns, tk) ==
    IF tk.pc = "ok" THEN ns ELSE OnServerDead(ns, tk)

\* filter_badnodes: what one turn of the loop leaves in the node's dict
FilterResult(ns, tk) ==
    IF tk.pc = "ok" THEN [ns EXCEPT !.raw = @ \cup {"init_props"}]
    ELSE OnServerDead(ns, tk)

\* Passed that queues the follow-up calls of no node.
PassedNever(tk) == FALSE

\* Passed that queues the follow-up calls of a node that raised, too.
PassedEvenDead(tk) == TRUE

\* filter_badnodes lines 342-351: `await blkdata` returned, the version and
\* block-info calls are queued
Passed(tk) == tk.pc = "ok"

\* Known that accepts whatever the identify call returned.
KnownAnyResult(tk) == tk.pc = "ok"

\* Known that lets every node through to the filter stage.
KnownEvenDead(tk) == TRUE

\* identify_nodes lines 283-291: the identify call returned one of the three
\* server types (anything else raises ServerDead)
Known(tk) == tk.pc = "ok" /\ tk.res \in {"jussi", "appbase", "legacy"}

\* Caught that has the `except ServerDead` clause only.
CaughtServerDeadOnly(exc) == exc = "ServerDead"

\* The `except ServerDead` and `except Exception` clauses around the body of
\* every stage loop and of plugin_test: every exception class the body can
\* raise derives from Exception.
Caught(exc) == exc \in {"ServerDead", "ValidationError", "AttributeError"}

\* What the body of a stage loop raises on the outcome tk of the task it
\* awaits: ServerDead from the call or for an unknown server type,
\* AttributeError from `.get` on a result that is no dict.
StageExc(kind, tk) ==
    CASE tk.pc = "dead" -> "ServerDead"
      [] tk.pc = "ok" /\ kind = "ident" /\ ~Known(tk) -> "ServerDead"
      [] tk.pc = "ok" /\ kind \in {"config", "props"} /\ tk.res = "notdict" -> "AttributeError"
      [] OTHER -> "none"

\* What mt.test raises in plugin_test: ServerDead from the call,
\* ValidationError for a result that fails the test's checks.
PluginExc(tk) ==
    CASE tk.pc = "dead" -> "ServerDead"
      [] tk.pc = "ok" /\ tk.res # "valid" -> "ValidationError"
      [] OTHER -> "none"

\* where scan_nodes is after a loop body that raised exc: at p when the
\* exception was caught, out of scan_nodes when it was not
After(exc, p) == IF exc = "none" \/ Caught(exc) THEN p ELSE [stage |-> "raised", idx |-> 0]

\* Settle with one status dict shared by the tests of all nodes.
SettleSharedEntry(nst, t, tk) ==
    IF Kind(t) = "plugin" /\ Finished(tk)
    THEN IF PluginExc(tk) = "none"
         THEN [nst EXCEPT ![nodes[1]].plugins = Append(@, MethodOf(t)),
                          ![nodes[1]].tries = Put(@, PluginKey(MethodOf(t)), tk.tries)]
         ELSE [nst EXCEPT ![nodes[1]].broken_plugins = Append(@, MethodOf(t))]
    ELSE nst

\* Settle that records the tests that passed only.
SettleDropsFailures(nst, t, tk) ==
    IF Kind(t) = "plugin" /\ Finished(tk) /\ PluginExc(tk) = "none"
    THEN [nst EXCEPT ![HostOf(t)].plugins = Append(@, MethodOf(t)),
                     ![HostOf(t)].tries = Put(@, PluginKey(MethodOf(t)), tk.tries)]
    ELSE nst

\* RPCScanner.plugin_test once mt.test returned or raised
Settle(nst, t, tk) ==
    IF Kind(t) = "plugin" /\ Finished(tk)
    THEN IF PluginExc(tk) = "none"
         THEN [nst EXCEPT ![HostOf(t)].plugins = Append(@, MethodOf(t)),
                          ![HostOf(t)].tries = Put(@, PluginKey(MethodOf(t)), tk.tries)]
         ELSE IF Caught(PluginExc(tk))
         THEN [nst EXCEPT ![HostOf(t)].broken_plugins = Append(@, MethodOf(t))]
         ELSE nst
    ELSE nst

\* MethodTests.get_filtered_methods(): the names of the enabled method
\* tests, each once
get_filtered_methods == TEST_PLUGINS_LIST

\* scan_nodes lines 229-238: the method tests queued for the nodes with raw data
PluginJobs(nst) ==
    LET alive == SelectSeq(nodes, LAMBDA h : nst[h].raw # {})
        L     == Len(get_filtered_methods)
    IN  [i \in 1..(Len(alive) * L) |->
            <<alive[((i - 1) \div L) + 1], get_filtered_methods[((i - 1) % L) + 1]>>]

\* Where scan_nodes awaits next: the first entry of the next non-empty list.
\* PcBlock that starts the method tests without awaiting the block-info tasks.
PcBlockNoWait(i, prop) == [stage |-> "plugins", idx |-> 0]

PcBlock(i, prop) ==
    IF i <= Len(prop) THEN [stage |-> "block_info", idx |-> i]
    ELSE [stage |-> "plugins", idx |-> 0]

PcVer(i, ver, prop) ==
    IF i <= Len(ver) THEN [stage |-> "versions", idx |-> i] ELSE PcBlock(1, prop)

PcFilter(i, up, ver, prop) ==
    IF i <= Len(up) THEN [stage |-> "filter", idx |-> i] ELSE PcVer(1, ver, prop)

\* PcIdent that leaves the identify stage after its first turn.
PcIdentOneTurn(i, up, ver, prop) == PcFilter(1, up, ver, prop)

PcIdent(i, up, ver, prop) ==
    IF i <= Len(nodes) THEN [stage |-> "identify", idx |-> i] ELSE PcFilter(1, up, ver, prop)

Jobs(nst, p) == IF p.stage = "plugins" /\ plugins_on THEN PluginJobs(nst) ELSE <<>>

\* The scan_nodes coroutine ran up to its next await: node_status and the
\* tasks as the stage left them, and the method tests queued when the four
\* stages are over.
MainStep(nst, tk, p) ==
    LET jobs == Jobs(nst, p)
    IN  /\ node_status' = nst
        /\ task' = [t \in TaskIds |->
                      IF Kind(t) = "plugin"
                         /\ \E i \in 1..Len(jobs) : jobs[i] = <<HostOf(t), MethodOf(t)>>
                      THEN NewTask ELSE tk[t]]
        /\ pt_list' = jobs
        /\ pc' = IF p.stage # "plugins" THEN p
                 ELSE IF jobs = <<>> THEN [stage |-> "done", idx |-> 0]
                 ELSE [stage |-> "await_plugins", idx |-> 1]

\* the state RPCScanner.__init__ leaves
Init ==
    /\ ident = NoCall /\ mt = NoCall /\ table = NoCall
    /\ task = [t \in TaskIds |-> NoTask]
    /\ node_status = <<>>
    /\ ident_nodes = <<>>
    /\ up_nodes = <<>>
    /\ ver_nodes = <<>>
    /\ prop_nodes = <<>>
    /\ pt_list = <<>>
    /\ pc = [stage |-> "init", idx |-> 0]
    /\ plugins_on \in BOOLEAN
    /\ max_score = MAX_SCORE
    /\ faults = 0
    /\ probe = NoProbe
    /\ scored = NoScore

\* scan_nodes lines 207-214: one dict and one identify task per node
ScanStart ==
    /\ pc.stage = "init"
    /\ ident_nodes' = nodes
    /\ MainStep([h \in Hosts |-> NewStatus],
                [t \in TaskIds |-> IF Kind(t) = "ident" THEN NewTask ELSE task[t]],
                PcIdent(1, up_nodes, ver_nodes, prop_nodes))
    /\ UNCHANGED <<libVars, up_nodes, ver_nodes, prop_nodes, plugins_on, max_score, faults, probe, scored>>

\* identify_nodes: one turn of the loop, for the identify task that finished
IdentifyStep ==
    /\ pc.stage = "identify"
    /\ LET h     == ident_nodes[pc.idx]
           tk    == task[T("ident", h)]
           known == Known(tk)
           ns1   == IF tk.pc = "ok"
                    THEN [node_status[h] EXCEPT !.srvtype = tk.res,
                                                !.tries = Put(@, "ident", tk.tries)]
                    ELSE OnServerDead(node_status[h], tk)
           up1   == IF known THEN Append(up_nodes, <<h, tk.res>>) ELSE up_nodes
           tk0   == Awaited(task, T("ident", h))
           tk1   == IF known THEN [tk0 EXCEPT ![T("filter", h)] = NewTask] ELSE tk0
       IN  /\ Finished(tk)
           /\ up_nodes' = up1
           /\ MainStep([node_status EXCEPT ![h] = ns1], tk1,
                       After(StageExc("ident", tk),
                             PcIdent(pc.idx + 1, up1, ver_nodes, prop_nodes)))
    /\ UNCHANGED <<libVars, ident_nodes, ver_nodes, prop_nodes, plugins_on, max_score, faults, probe, scored>>

\* filter_badnodes: one turn of the loop
FilterStep ==
    /\ pc.stage = "filter"
    /\ LET h     == up_nodes[pc.idx][1]
           tk    == task[T("filter", h)]
           ok    == Passed(tk)
           ns1   == FilterResult(node_status[h], tk)
           prop1 == IF ok THEN Append(prop_nodes, h) ELSE prop_nodes
           ver1  == IF ok THEN Append(ver_nodes, h) ELSE ver_nodes
           tk0   == Awaited(task, T("filter", h))
           tk1   == IF ok THEN [tk0 EXCEPT ![T("props", h)] = NewTask,
                                           ![T("config", h)] = NewTask]
                    ELSE tk0
       IN  /\ Finished(tk)
           /\ prop_nodes' = prop1
           /\ ver_nodes' = ver1
           /\ MainStep([node_status EXCEPT ![h] = ns1], tk1,
                       After(StageExc("filter", tk),
                             PcFilter(pc.idx + 1, up_nodes, ver1, prop1)))
    /\ UNCHANGED <<libVars, ident_nodes, up_nodes, plugins_on, max_score, faults, probe, scored>>

\* scan_versions: one turn of the loop
VersionStep ==
    /\ pc.stage = "versions"
    /\ LET h   == ver_nodes[pc.idx]
           tk  == task[T("config", h)]
           ns1 == IF tk.pc = "ok"
                  THEN [node_status[h] EXCEPT
                          !.raw = @ \cup {"config"},
                          !.tries = Put(@, "config", tk.tries),
                          !.version = IF tk.res = "version" THEN "0.23.0" ELSE "Unknown"]
                  ELSE OnServerDead(node_status[h], tk)
       IN  /\ Finished(tk)
           /\ MainStep([node_status EXCEPT ![h] = ns1], Awaited(task, T("config", h)),
                       After(StageExc("config", tk),
                             PcVer(pc.idx + 1, ver_nodes, prop_nodes)))
    /\ UNCHANGED <<libVars, ident_nodes, up_nodes, ver_nodes, prop_nodes, plugins_on, max_score, faults,
                   probe, scored>>

\* scan_block_info: one turn of the loop
BlockInfoStep ==
    /\ pc.stage = "block_info"
    /\ LET h   == prop_nodes[pc.idx]
           tk  == task[T("props", h)]
           ns1 == IF tk.pc = "ok"
                  THEN [node_status[h] EXCEPT
                          !.raw = @ \cup {"props"},
                          !.tries = Put(@, "props", tk.tries),
                          !.block_time = CASE tk.res = "notdict" -> @
                                           [] tk.res = "notime"  -> "Unknown"
                                           [] OTHER              -> tk.res]
                  ELSE OnServerDead(node_status[h], tk)
       IN  /\ Finished(tk)
           /\ MainStep([node_status EXCEPT ![h] = ns1], Awaited(task, T("props", h)),
                       After(StageExc("props", tk), PcBlock(pc.idx + 1, prop_nodes)))
    /\ UNCHANGED <<libVars, ident_nodes, up_nodes, ver_nodes, prop_nodes, plugins_on, max_score, faults,
                   probe, scored>>

\* scan_nodes lines 240-244: await the next method test (an exception that
\* plugin_test did not catch is raised by the await)
PluginAwait ==
    /\ pc.stage = "await_plugins"
    /\ Finished(task[<<"plugin", pt_list[pc.idx][1], pt_list[pc.idx][2]>>])
    /\ task' = Awaited(task, <<"plugin", pt_list[pc.idx][1], pt_list[pc.idx][2]>>)
    /\ pc' = After(PluginExc(task[<<"plugin", pt_list[pc.idx][1], pt_list[pc.idx][2]>>]),
                   IF pc.idx < Len(pt_list) THEN [pc EXCEPT !.idx = @ + 1]
                   ELSE [stage |-> "done", idx |-> 0])
    /\ UNCHANGED <<libVars, node_status, ident_nodes, up_nodes, ver_nodes, prop_nodes,
                   pt_list, plugins_on, max_score, faults, probe, scored>>

\* A task's request in flight is answered.
ScanAttempt(t) ==
    /\ task[t].pc = "run"
    /\ \E r \in Replies(Kind(t)) :
          /\ Nominal(Kind(t), r) \/ faults < MaxFaults
          /\ faults' = IF Nominal(Kind(t), r) THEN faults ELSE faults + 1
          /\ task' = [task EXCEPT ![t] = Attempt(Kind(t), task[t], r)]
          /\ node_status' = Settle(node_status, t, Attempt(Kind(t), task[t], r))
    /\ UNCHANGED <<libVars, ident_nodes, up_nodes, ver_nodes, prop_nodes, pt_list, pc,
                   plugins_on, max_score, probe, scored>>

\* A task's retry delay is over.
ScanSleep(t) ==
    /\ task[t].pc = "sleep"
    /\ task' = [task EXCEPT ![t] = AfterSleep(task[t])]
    /\ node_status' = Settle(node_status, t, AfterSleep(task[t]))
    /\ UNCHANGED <<libVars, ident_nodes, up_nodes, ver_nodes, prop_nodes, pt_list, pc,
                   plugins_on, max_score, faults, probe, scored>>

Next ==
    \/ ScanStart
    \/ IdentifyStep
    \/ FilterStep
    \/ VersionStep
    \/ BlockInfoStep
    \/ PluginAwait
    \/ \E t \in TaskIds : ScanAttempt(t) \/ ScanSleep(t)

Spec == Init /\ [][Next]_vars

\* RPCScanner.node_objs: the NodeStatus built from a node's dict
NodeOf(h) ==
    [raw |-> node_status[h].raw, tries |-> node_status[h].tries,
     plugins |-> node_status[h].plugins, broken_plugins |-> node_status[h].broken_plugins,
     block_time |-> node_status[h].block_time]

\* NodeStatus.__post_init__ parses the block time: 'Unknown' makes it raise
Buildable(h) == node_status[h].block_time # "Unknown"

InList(h, list) == \E i \in 1..Len(list) : list[i] = h

WSOnly(h) == node_status[h].err_reason = "WS Only"

C8_ScoreInRange ==
    /\ \A m \in MinScores : score_node(m, probe, plugins_on)[1] \in 0..max_score
    /\ scored # NoScore => scored.result[1] \in 0..max_score

C8_Witness ==
    /\ scored # NoScore
    /\ status(probe) > 0
    /\ AfterStaleness(probe, PrePenalty(probe, plugins_on)) < 0
    /\ scored.result[1] = 0
    /\ \E k \in DOMAIN probe.tries : probe.tries[k] = MAX_TRIES

--------------------------------------------------------------------------
(* Which calls a scan issues, and when.                                    *)

\* add_task: this step created the task t
Created(t) == task[t].pc = "none" /\ task'[t].pc # "none"

\* C11 as stated: the call of the next stage is issued for a node only if
\* the node's call of the stage before succeeded: filter after identify,
\* version after filter, block-info after version.
C11_SequentialGates ==
    [][\A h \in Hosts :
          /\ Created(T("filter", h)) => "ident" \in DOMAIN node_status'[h].tries
          /\ Created(T("config", h)) => "init_props" \in node_status'[h].raw
          /\ Created(T("props", h))  => "config" \in node_status'[h].raw]_vars

\* C11, amended: the filter call is issued for a node only if its identify
\* call succeeded with a known server type, and the version call only if its
\* filter call succeeded; the block-info call is issued together with the
\* version call, before the version call has an outcome.
C11_GatesUpToFilter ==
    [][\A h \in Hosts :
          /\ Created(T("filter", h))
                => /\ "ident" \in DOMAIN node_status'[h].tries
                   /\ node_status'[h].srvtype \in {"jussi", "appbase", "legacy"}
          /\ Created(T("config", h)) => "init_props" \in node_status'[h].raw
          /\ Created(T("props", h)) <=> Created(T("config", h))
          /\ Created(T("props", h)) => "config" \notin node_status'[h].raw]_vars

\* the version call of a node failed and its block-info call succeeded
C11_Witness ==
    \E h \in Hosts : task[T("config", h)].pc = "dead" /\ task[T("props", h)].pc = "ok"

\* the task t has been created and has not yet returned or raised
Unresolved(t) == task[t].pc \in {"run", "sleep"}

\* the position of a stage in scan_nodes, and the stage a task belongs to
StageRank(stage) ==
    CASE stage = "init" -> 0
      [] stage = "identify" -> 1
      [] stage = "filter" -> 2
      [] stage = "versions" -> 3
      [] stage = "block_info" -> 4
      [] OTHER -> 5

KindRank(kind) ==
    CASE kind = "ident" -> 1
      [] kind = "filter" -> 2
      [] kind = "config" -> 3
      [] kind = "props" -> 4
      [] OTHER -> 5

StageTasks == {t \in TaskIds : Kind(t) # "plugin"}

\* C12 as stated: no task of the next stage is created for any node while a
\* task of the stage before, of any node of the scan, is still unresolved.
C12_FullBarriers ==
    [][\A t \in StageTasks :
          Created(t) => \A u \in StageTasks :
                           KindRank(Kind(u)) + 1 = KindRank(Kind(t)) => ~Unresolved(u)]_vars

\* C12, amended: the barrier is on the processing of results, not on the
\* creation of tasks.  The result of a task is processed only when the
\* results of all earlier stages have been processed for every node, and a
\* node's filter task exists only once its own identify result is processed,
\* its version and block-info tasks only once its own filter result is.
C12_BarrierOnResults ==
    /\ \A t \in StageTasks :
          KindRank(Kind(t)) < StageRank(pc.stage) => task[t].pc \in {"none", "awaited"}
    /\ StageRank(pc.stage) > 1 => \A h \in Hosts : task[T("ident", h)].pc = "awaited"
    /\ \A h \in Hosts :
          /\ task[T("filter", h)].pc # "none" => task[T("ident", h)].pc = "awaited"
          /\ task[T("config", h)].pc # "none" => task[T("filter", h)].pc = "awaited"
          /\ task[T("props", h)].pc # "none"  => task[T("filter", h)].pc = "awaited"

\* a node's filter task is running while another node's identify task is
\* still unresolved
C12_Witness ==
    \E h, g \in Hosts :
        h # g /\ task[T("filter", h)].pc = "run" /\ Unresolved(T("ident", g))

--------------------------------------------------------------------------
(* What a stage leaves of a node whose call raised ServerDead.             *)

\* the loop of the stage has finished its i-th turn
TurnDone(stage, i) ==
    \/ StageRank(pc.stage) > StageRank(stage)
    \/ pc.stage = stage /\ pc.idx > i

\* the `except` clause of the stage ran for h: its turn is over and the
\* stage recorded nothing (an unknown server type raises ServerDead, too)
IdentFailed(h) ==
    \E i \in 1..Len(ident_nodes) :
        /\ ident_nodes[i] = h /\ TurnDone("identify", i)
        /\ \A j \in 1..Len(up_nodes) : up_nodes[j][1] # h

FilterFailed(h) ==
    \E i \in 1..Len(up_nodes) :
        /\ up_nodes[i][1] = h /\ TurnDone("filter", i)
        /\ "init_props" \notin node_status[h].raw

VersionFailed(h) ==
    \E i \in 1..Len(ver_nodes) :
        /\ ver_nodes[i] = h /\ TurnDone("versions", i)
        /\ "config" \notin node_status[h].raw

\* what the four stages record for a node: raw data, attempt counts of the
\* stage calls, block time, version
StageData(ns) ==
    [raw |-> ns.raw, block_time |-> ns.block_time, version |-> ns.version,
     tries |-> [k \in DOMAIN ns.tries \cap {"ident", "config", "props"} |-> ns.tries[k]]]

\* C13 as stated: once a stage has raised ServerDead for a node, no later
\* stage records a result for it: its raw data, attempt counts and block
\* time stay as they are.
C13_ServerDeadDrops ==
    [][\A h \in Hosts :
          (pc.stage # "init" /\ (IdentFailed(h) \/ FilterFailed(h) \/ VersionFailed(h)))
              => StageData(node_status'[h]) = StageData(node_status[h])]_vars

\* C13, amended: a ServerDead at identify or filter drops the node: nothing
\* in its entry changes afterwards, method tests included.  A ServerDead at
\* the version stage does not (see C13_Witness).
C13_DropsUntilFiltered ==
    [][\A h \in Hosts :
          (pc.stage # "init" /\ (IdentFailed(h) \/ FilterFailed(h)))
              => node_status'[h] = node_status[h]]_vars

\* one node was dropped by the filter stage, for another the version stage
\* raised ServerDead and the block-info stage recorded its result all the same
C13_Witness ==
    /\ pc.stage = "done"
    /\ \E h \in Hosts : FilterFailed(h) /\ node_status[h].raw = {}
    /\ \E h \in Hosts : VersionFailed(h) /\ "props" \in node_status[h].raw
                         /\ "props" \in DOMAIN node_status[h].tries

--------------------------------------------------------------------------
(* How a scan ends.                                                        *)

\* C14: scan_nodes never raises to its caller.  Whatever the calls of the
\* stages and of the method tests answer (success, transient failure, 426,
\* JSON-RPC error, malformed payload), no exception leaves scan_nodes, and a
\* scan that can take no further step has returned.
C14_NeverRaises ==
    /\ pc.stage # "raised"
    /\ ~ENABLED Next => pc.stage = "done"

\* a scan that returned after a stage caught a ServerDead, the block-info
\* stage got a result that is no dict, and a method test failed
C14_Witness ==
    /\ pc.stage = "done"
    /\ \E h \in Hosts : WSOnly(h)
    /\ \E h \in Hosts : "props" \in node_status[h].raw /\ node_status[h].block_time = "error"
    /\ \E h \in Hosts : node_status[h].broken_plugins # <<>>

\* how often the method m occurs in a list of method names
Occurrences(list, m) == Cardinality({i \in 1..Len(list) : list[i] = m})

\* C15: with the method tests enabled, once scan_nodes has returned, every
\* node with raw data has each enabled method exactly once in plugins or in
\* broken_plugins, never in both, under every interleaving of the tests; a
\* node without raw data has both lists empty.
C15_EachMethodOnce ==
    (pc.stage = "done" /\ plugins_on) =>
        \A h \in Hosts :
            /\ node_status[h].raw # {} =>
                  \A m \in Methods :
                      Occurrences(node_status[h].plugins, m)
                          + Occurrences(node_status[h].broken_plugins, m) = 1
            /\ node_status[h].raw = {} =>
                  node_status[h].plugins = <<>> /\ node_status[h].broken_plugins = <<>>

\* a finished scan with one dead node and one node whose first test failed
\* and whose second test passed
C15_Witness ==
    /\ pc.stage = "done" /\ plugins_on
    /\ \E h \in Hosts : node_status[h].raw = {}
    /\ \E h \in Hosts :
          /\ node_status[h].broken_plugins = <<TEST_PLUGINS_LIST[1]>>
          /\ node_status[h].plugins = <<TEST_PLUGINS_LIST[2]>>

\* scan_nodes has awaited every stage task created for h, the identify
\* task included
OwnStagesDone(h) ==
    /\ task[T("ident", h)].pc = "awaited"
    /\ \A t \in StageTasks : HostOf(t) = h => task[t].pc \in {"none", "awaited"}

\* the method tests of h have been queued
TestsIssued(h) == \A m \in Methods : task[<<"plugin", h, m>>].pc # "none"

\* C16 as stated: the method tests of a node are not gated on other nodes:
\* with the method tests enabled, a node with raw data that has completed
\* its own stages has its tests issued, whatever stage the other nodes of
\* the scan are in.
C16_NotGatedOnOthers ==
    \A h \in Hosts :
        (plugins_on /\ pc.stage # "init" /\ OwnStagesDone(h) /\ node_status[h].raw # {})
            => TestsIssued(h)

\* C16, amended: the method tests are gated on all nodes: a method-test task
\* exists only when every stage task of every node of the scan has been
\* awaited.
C16_GatedOnAllNodes ==
    \A t \in TaskIds :
        (Kind(t) = "plugin" /\ task[t].pc # "none") =>
            /\ \A u \in StageTasks : task[u].pc \in {"none", "awaited"}
            /\ \A g \in Hosts : task[T("ident", g)].pc = "awaited"
            /\ plugins_on /\ node_status[HostOf(t)].raw # {}

\* a node with raw data has completed its own stages, another node's
\* block-info call is still in flight, and the first node's tests wait
C16_Witness ==
    \E h, g \in Hosts :
        /\ plugins_on /\ OwnStagesDone(h) /\ node_status[h].raw # {}
        /\ "props" \in node_status[h].raw
        /\ Unresolved(T("props", g))
        /\ ~TestsIssued(h)

--------------------------------------------------------------------------
(* Whose entry of node_status a step writes.                               *)

\* the host whose task scan_nodes awaits at pc
TurnHost ==
    CASE pc.stage = "identify" -> ident_nodes[pc.idx]
      [] pc.stage = "filter" -> up_nodes[pc.idx][1]
      [] pc.stage = "versions" -> ver_nodes[pc.idx]
      [] pc.stage = "block_info" -> prop_nodes[pc.idx]
      [] pc.stage = "await_plugins" -> pt_list[pc.idx][1]
      [] OTHER -> "-"

\* this step is a turn of a stage loop for h, or a step of a task of h
OnBehalfOf(h) ==
    IF pc' # pc THEN TurnHost = h
    ELSE \E t \in TaskIds : HostOf(t) = h /\ task'[t] # task[t]

\* C20: a step of a scan made on behalf of the host h, processing a stage
\* result of h or running plugin_test for h, changes at most node_status[h]
\* and leaves the entry of every other host as it is.
C20_OwnEntryOnly ==
    [][pc.stage # "init" =>
          \A h \in Hosts : node_status'[h] # node_status[h] => OnBehalfOf(h)]_vars

\* the tests of one node have written its entry while a test of the other
\* node, whose entry holds a failed test already, is still running
C20_Witness ==
    pc.stage = "await_plugins" /\ \E h, g \in Hosts :
        /\ h # g
        /\ node_status[h].plugins # <<>>
        /\ node_status[g].broken_plugins # <<>>
        /\ \E m \in Methods : Unresolved(<<"plugin", g, m>>)
        /\ "props" \in node_status[h].raw /\ "init_props" \in node_status[g].raw

--------------------------------------------------------------------------
(* _ident_response on its own: one call on every body.                     *)

\* the scanner and score_node at rest
AtRest ==
    /\ task = [t \in TaskIds |-> NoTask]
    /\ node_status = <<>>
    /\ ident_nodes = <<>>
    /\ up_nodes = <<>>
    /\ ver_nodes = <<>>
    /\ prop_nodes = <<>>
    /\ pt_list = <<>>
    /\ pc = [stage |-> "idle", idx |-> 0]
    /\ plugins_on = FALSE
    /\ max_score = MAX_SCORE
    /\ faults = 0
    /\ probe = NoProbe
    /\ scored = NoScore

InitIdent ==
    /\ AtRest
    /\ ident \in [pc : {"called"}, body : Bodies, decoded : BOOLEAN, result : {"-"}]
    /\ mt = NoCall
    /\ table = NoCall

\* srvtype = _ident_response(res)
Classify ==
    /\ ident.pc = "called"
    /\ ident' = [ident EXCEPT
                   !.result = IdentResponse(ident.body, ident.decoded),
                   !.pc = IF IdentResponse(ident.body, ident.decoded) = "raise"
                          THEN "raised" ELSE "returned"]
    /\ UNCHANGED <<task, scanVars, plugins_on, max_score, faults, probe, scored, mt, table>>

NextIdent == Classify

SpecIdent == InitIdent /\ [][NextIdent]_vars

\* C18: of a body whose JSON members the classifier sees, one with a
\* jussi_num field and no other marker is classified jussi, one whose error
\* message equals 'End Of File:stringstream' and has no other marker is
\* classified appbase, one whose text holds 'could not call api' and no
\* other marker is classified legacy, and every body with none of these
\* markers is classified None.
C18_Classification ==
    (ident.pc \in {"returned", "raised"} /\ ident.decoded) =>
        LET b      == ident.body
            jussi  == b.jussi_num
            eof    == b.errmsg = "eof" \/ b.eoftext
            legacy == b.legacytext
        IN  /\ (jussi /\ ~eof /\ ~legacy) => ident.result = "jussi"
            /\ (b.errmsg = "eof" /\ ~jussi /\ ~legacy) => ident.result = "appbase"
            /\ (legacy /\ ~jussi /\ ~eof) => ident.result = "legacy"
            /\ (~jussi /\ ~eof /\ ~legacy) => ident.result = "None"

--------------------------------------------------------------------------
(* MethodTests.test_all on its own: the tests of one node run as tasks,    *)
(* test_all awaits them in the order of METHOD_MAP.                        *)

\* a whitelist / blacklist argument: None, or a list of method names
NoList == [given |-> FALSE, names |-> {}]

List(names) == [given |-> TRUE, names |-> names]

WhiteLists ==
    { NoList, List({}),
      List({METHOD_MAP[1], METHOD_MAP[3], METHOD_MAP[4]}),
      List({METHOD_MAP[2], METHOD_MAP[5], "database_api.get_config"}) }

BlackLists == { NoList, List({METHOD_MAP[1]}), List({METHOD_MAP[3], METHOD_MAP[5]}) }

\* test_all lines 69-76: the methods of the catalogue a task is created for
Selected(whitelist, blacklist) ==
    SelectSeq(METHOD_MAP,
              LAMBDA m : /\ (whitelist.given => m \in whitelist.names)
                         /\ (blacklist.given => m \notin blacklist.names))

Pending == [done |-> FALSE, status |-> FALSE, result |-> "None", error |-> "None", exc |-> "none"]

\* test_meth without its except clause: the exception of the test leaves the task.
test_meth_no_catch(raises) ==
    IF raises
    THEN [done |-> TRUE, status |-> FALSE, result |-> "None", error |-> "None", exc |-> "Exception"]
    ELSE [done |-> TRUE, status |-> TRUE, result |-> "tuple", error |-> "None", exc |-> "none"]

\* _test_meth: (status, result, error) of a test function that returned its
\* (response, time, tries) tuple or raised, and the exception leaving the task
test_meth(raises) ==
    IF raises
    THEN [done |-> TRUE, status |-> FALSE, result |-> "None", error |-> "Exception", exc |-> "none"]
    ELSE [done |-> TRUE, status |-> TRUE, result |-> "tuple", error |-> "None", exc |-> "none"]

InitTests ==
    /\ AtRest
    /\ ident = NoCall
    /\ table = NoCall
    /\ \E w \in WhiteLists, b \in BlackLists :
          mt = [pc |-> "called", whitelist |-> w, blacklist |-> b, tasks |-> <<>>,
                out |-> <<>>, idx |-> 0,
                res |-> [methods |-> <<>>, errors |-> {}, results |-> {}]]

\* where test_all is once it has awaited the (i-1)-th task
TestAllPc(i, tasks) == IF i <= Len(tasks) THEN "await" ELSE "returned"

\* test_all lines 67-76: a task per selected method, up to the first await
TestAllStart ==
    /\ mt.pc = "called"
    /\ LET tasks == Selected(mt.whitelist, mt.blacklist)
       IN  mt' = [mt EXCEPT !.tasks = tasks,
                            !.out = [m \in {tasks[i] : i \in 1..Len(tasks)} |-> Pending],
                            !.idx = 1,
                            !.pc = TestAllPc(1, tasks)]
    /\ UNCHANGED <<task, scanVars, plugins_on, max_score, faults, probe, scored, ident, table>>

\* the task of the method m ran _test_meth to its end
TestMeth(m) ==
    /\ mt.pc = "await"
    /\ m \in DOMAIN mt.out
    /\ ~mt.out[m].done
    /\ \E raises \in BOOLEAN : mt' = [mt EXCEPT !.out[m] = test_meth(raises)]
    /\ UNCHANGED <<task, scanVars, plugins_on, max_score, faults, probe, scored, ident, table>>

\* test_all lines 77-81: `await t` returned, or raised what the task raised
TestAllAwait ==
    /\ mt.pc = "await"
    /\ LET m == mt.tasks[mt.idx]
           o == mt.out[m]
       IN  /\ o.done
           /\ mt' = IF o.exc # "none"
                    THEN [mt EXCEPT !.pc = "raised"]
                    ELSE [mt EXCEPT
                            !.res.methods = Put(@, m, o.status),
                            !.res.results = IF o.result # "None" THEN @ \cup {m} ELSE @,
                            !.res.errors = IF o.error # "None" THEN @ \cup {m} ELSE @,
                            !.idx = @ + 1,
                            !.pc = TestAllPc(mt.idx + 1, mt.tasks)]
    /\ UNCHANGED <<task, scanVars, plugins_on, max_score, faults, probe, scored, ident, table>>

NextTests ==
    \/ TestAllStart
    \/ \E i \in 1..Len(METHOD_MAP) : TestMeth(METHOD_MAP[i])
    \/ TestAllAwait

SpecTests == InitTests /\ [][NextTests]_vars

\* C17: test_all never propagates a test failure.  For every whitelist and
\* blacklist and every outcome of the tests it returns; then methods has one
\* boolean entry for each selected method of the catalogue and no other,
\* errors has an entry for a method iff methods[method] is False, and
\* results has an entry iff methods[method] is True.
C17_TestAllReturns ==
    /\ mt.pc # "raised"
    /\ ~ENABLED NextTests => mt.pc = "returned"
    /\ mt.pc = "returned" =>
          LET sel == Selected(mt.whitelist, mt.blacklist)
          IN  /\ DOMAIN mt.res.methods = {sel[i] : i \in 1..Len(sel)}
              /\ \A m \in DOMAIN mt.res.methods :
                    /\ mt.res.methods[m] \in BOOLEAN
                    /\ m \in mt.res.errors <=> mt.res.methods[m] = FALSE
                    /\ m \in mt.res.results <=> mt.res.methods[m] = TRUE
              /\ mt.res.errors \cup mt.res.results \subseteq DOMAIN mt.res.methods

\* test_all returned with a whitelist that names a method outside the
\* catalogue and a blacklist, one test having failed and one passed
C17_Witness ==
    /\ mt.pc = "returned"
    /\ mt.whitelist.given /\ mt.blacklist.given
    /\ "database_api.get_config" \in mt.whitelist.names
    /\ mt.res.methods[METHOD_MAP[2]] = FALSE /\ METHOD_MAP[2] \in mt.res.errors
    /\ mt.res.results = {METHOD_MAP[5]}

--------------------------------------------------------------------------
(* RPCScanner.prepare_table and host_sorter on the nodes of a scan.        *)

table_sort_aliases ==
    [online |-> "online_status", working |-> "online_status", dead |-> "dead_status",
     outofsync |-> "outofsync_status",
     plugins |-> "api_tests", apitests |-> "api_tests", tests |-> "api_tests",
     block |-> "head_block", time |-> "block_time", retries |-> "avg_retries",
     hive |-> "hive_network", steem |-> "steem_network", golos |-> "golos_network",
     whaleshares |-> "whaleshares_network"]

table_default_reverse == {"api_tests", "head_block", "block_time"}

\* table_sort_aliases.get(key, key)
Alias(key) == IF key \in DOMAIN table_sort_aliases THEN table_sort_aliases[key] ELSE key

StatusKeys == {"online_status", "dead_status", "outofsync_status"}

NetworkKeys == {"hive_network", "steem_network", "golos_network", "whaleshares_network"}

\* the sort keys handed to prepare_table: every alias, every key an alias
\* stands for, a plain attribute, the default, and a key no node has
SortKeys ==
    DOMAIN table_sort_aliases \cup {table_sort_aliases[a] : a \in DOMAIN table_sort_aliases}
        \cup {"status", "default", "bogus_key"}

\* the node_status entries of the table: as a scan leaves a node that never
\* answered, one dropped by the filter, a healthy one, one out of sync with
\* a retried call and a failed test, one whose block-info call failed, and
\* one whose props reply had no head_block_number
TableNodes ==
    { [raw |-> {}, tries |-> <<>>, plugins |-> <<>>, broken_plugins |-> <<>>,
       block_time |-> "error", current_block |-> "error", network |-> "err"],
      [raw |-> {}, tries |-> [ident |-> 2], plugins |-> <<>>, broken_plugins |-> <<>>,
       block_time |-> "error", current_block |-> "error", network |-> "err"],
      [raw |-> {"init_props", "config", "props"},
       tries |-> [ident |-> 1, config |-> 1, props |-> 1],
       plugins |-> TEST_PLUGINS_LIST, broken_plugins |-> <<>>,
       block_time |-> "fresh", current_block |-> "7", network |-> "Hive"],
      [raw |-> {"init_props", "config", "props"},
       tries |-> [ident |-> 1, config |-> 1, props |-> 2],
       plugins |-> <<TEST_PLUGINS_LIST[1]>>, broken_plugins |-> <<TEST_PLUGINS_LIST[2]>>,
       block_time |-> "stale61", current_block |-> "5", network |-> "Steem"],
      [raw |-> {"init_props", "config"}, tries |-> [ident |-> 1, config |-> 3],
       plugins |-> <<>>, broken_plugins |-> <<>>,
       block_time |-> "error", current_block |-> "error", network |-> "err"],
      [raw |-> {"init_props", "config", "props"},
       tries |-> [ident |-> 1, config |-> 1, props |-> 1],
       plugins |-> <<>>, broken_plugins |-> <<>>,
       block_time |-> "same", current_block |-> "Unknown", network |-> "Unknown"] }

\* a value host_sorter returned, or the exception it raised
Val(v) == [exc |-> FALSE, val |-> v]

Raises == [exc |-> TRUE, val |-> 0]

\* where Python orders the strings the network keys return
StrRank(s) ==
    CASE s = "!" -> 0
      [] s = "Hive" -> 1
      [] s = "Steem" -> 2
      [] s = "Unknown" -> 3
      [] s = "err" -> 4

\* 'hive' in strcont.lower() for the key hive_network, and so on
NetworkHas(net, key) ==
    \/ net = "Hive" /\ key = "hive_network"
    \/ net = "Steem" /\ key = "steem_network"

\* int(content) of the head block numbers of TableNodes
IntOf(s) == CASE s = "5" -> 5 [] s = "7" -> 7

\* the fallback datetime(1980, ...) of a column reversed by default, in
\* seconds before the scan
Year1980 == 1000000000

\* host_sorter from line 619 on: the value for the key the alias stands for
SortValue(n, key) ==
    IF key \in {"api_tests", "plugins"}
    THEN Val(IF n.plugins = <<>> THEN 0
             ELSE (100 * Len(n.plugins)) \div Len(TEST_PLUGINS_LIST))
    ELSE IF key \in StatusKeys
    THEN IF HasBlockTime(n) /\ time_behind(n) > 60
         THEN Val(IF key = "outofsync_status" THEN 0 ELSE 2)
         ELSE IF key = "online_status" /\ status(n) >= 3 THEN Val(0)
         ELSE IF key = "dead_status" /\ status(n) <= 0 THEN Val(0)
         ELSE Val(status(n) + 1)
    ELSE IF key \in NetworkKeys
    THEN Val(StrRank(IF NetworkHas(n.network, key) THEN "!" ELSE n.network))
    ELSE IF key = "head_block"
    THEN IF n.current_block = "error" THEN Val(0)
         ELSE IF n.current_block = "Unknown" THEN Raises
         ELSE Val(IntOf(n.current_block))
    ELSE IF key = "block_time"
    THEN IF HasBlockTime(n) THEN Val(0 - time_behind(n)) ELSE Val(0 - Year1980)
    ELSE IF key = "avg_retries"
    THEN IF DOMAIN n.tries = {} THEN Raises
         ELSE Val((200 * total_retries(n) + Cardinality(DOMAIN n.tries))
                      \div (2 * Cardinality(DOMAIN n.tries)))
    ELSE Val(status(n))

\* host_sorter that looks the key up as it was given.
host_sorter_no_alias(n, key) == SortValue(n, key)

\* RPCScanner.host_sorter(host, key) for the node n of the host
host_sorter(n, key) == SortValue(n, Alias(key))

\* sorted(list, key, reverse): stable, the rows of equal key in list order
RECURSIVE Sorted(_, _, _)
Sorted(list, val, reverse) ==
    IF list = <<>> THEN <<>>
    ELSE LET init == Sorted(SubSeq(list, 1, Len(list) - 1), val, reverse)
             h    == list[Len(list)]
             k    == Cardinality({i \in 1..Len(init) :
                                    IF reverse THEN val[init[i]] >= val[h]
                                    ELSE val[init[i]] <= val[h]})
         IN  SubSeq(init, 1, k) \o <<h>> \o SubSeq(init, k + 1, Len(init))

Reversed(list) == [i \in 1..Len(list) |-> list[Len(list) + 1 - i]]

\* prepare_table(sort_by, reverse) on the entries nst: the hosts of the rows
\* in the order returned, or the exception of a host_sorter call
prepare_table(nst, sort_by, reverse) ==
    LET rev  == IF reverse = "None" THEN Alias(sort_by) \in table_default_reverse
                ELSE reverse = "True"
        keys == [h \in Hosts |-> host_sorter(nst[h], sort_by)]
    IN  IF sort_by = "default"
        THEN [exc |-> FALSE, rows |-> IF rev THEN Reversed(nodes) ELSE nodes]
        ELSE IF \E h \in Hosts : keys[h].exc
        THEN [exc |-> TRUE, rows |-> <<>>]
        ELSE [exc |-> FALSE, rows |-> Sorted(nodes, [h \in Hosts |-> keys[h].val], rev)]

InitTable ==
    /\ AtRest
    /\ ident = NoCall
    /\ mt = NoCall
    /\ table \in [pc : {"called"}, node_status : [Hosts -> TableNodes],
                  sort_by : SortKeys, reverse : {"None", "True", "False"},
                  out : {[exc |-> FALSE, rows |-> <<>>]}]

PrepareTable ==
    /\ table.pc = "called"
    /\ table' = [table EXCEPT
                   !.out = prepare_table(table.node_status, table.sort_by, table.reverse),
                   !.pc = IF prepare_table(table.node_status, table.sort_by, table.reverse).exc
                          THEN "raised" ELSE "returned"]
    /\ UNCHANGED <<task, scanVars, plugins_on, max_score, faults, probe, scored, ident, mt>>

NextTable == PrepareTable

SpecTable == InitTable /\ [][NextTable]_vars

\* C19: for every node set, prepare_table with an alias as sort_by returns
\* the rows in the same order as with the key the alias stands for, 'block'
\* as 'head_block', with the same default direction when reverse is not
\* given; host_sorter returns the same value for an alias and its key.
C19_AliasEquivalence ==
    table.pc \in {"returned", "raised"} =>
        /\ table.out = prepare_table(table.node_status, Alias(table.sort_by), table.reverse)
        /\ \A h \in Hosts :
              host_sorter(table.node_status[h], table.sort_by)
                  = SortValue(table.node_status[h], Alias(table.sort_by))
        /\ table.sort_by = "block" =>
              /\ table.out = prepare_table(table.node_status, "head_block", table.reverse)
              /\ \A h \in Hosts : host_sorter(table.node_status[h], "block")
                                     = SortValue(table.node_status[h], "head_block")

\* prepare_table(sort_by='block') without reverse returned the node with the
\* higher head block first, against the order of the node list
C19_Witness ==
    /\ table.pc = "returned"
    /\ table.sort_by = "block" /\ table.reverse = "None"
    /\ table.node_status[nodes[1]].current_block = "5"
    /\ table.node_status[nodes[2]].current_block = "7"
    /\ table.out.rows[1] = nodes[2]


--------------------------------------------------------------------------
(* What NodeStatus.status counts.                                          *)

\* identify_nodes appended the node to up_nodes: its identify call returned
\* one of the three server types
Identified(h) == \E i \in 1..Len(up_nodes) : up_nodes[i][1] = h

\* how many of the stages in cats the scan completed for node h; a stage is
\* completed when its loop ran past its `await` for h without raising:
\* identify and filter then append h to the next stage's list, versions and
\* block-info record the attempt count of their call
StagesAchieved(h, cats) ==
    Cardinality({c \in cats :
        \/ c = "identify" /\ Identified(h)
        \/ c = "filter" /\ InList(h, ver_nodes)
        \/ c = "versions" /\ "config" \in DOMAIN node_status[h].tries
        \/ c = "block_info" /\ "props" \in DOMAIN node_status[h].tries})

\* C21 as stated: after a scan, the status of every node is the number of
\* the categories identify success, version success and block-info success
\* it achieved, so a node whose identify succeeded has status >= 1.
C21_CountsIdentify ==
    pc.stage = "done" =>
        \A h \in Hosts :
            /\ status(NodeOf(h)) = StagesAchieved(h, {"identify", "versions", "block_info"})
            /\ Identified(h) => status(NodeOf(h)) >= 1

\* C21, amended: in every state of a scan, the status of every node is the
\* number of the categories filter success, version success and block-info
\* success it achieved; identify success is not counted, so a node has
\* status >= 1 exactly when its filter call succeeded.
C21_CountsFilter ==
    pc.stage \notin {"init", "raised"} =>
        \A h \in Hosts :
            /\ status(NodeOf(h)) = StagesAchieved(h, {"filter", "versions", "block_info"})
            /\ status(NodeOf(h)) >= 1 <=> InList(h, ver_nodes)

\* a finished scan with a node that was identified and failed the filter
\* (status 0) next to one that passed all stages (status 3)
C21_Witness ==
    /\ pc.stage = "done"
    /\ \E h \in Hosts : Identified(h) /\ ~InList(h, ver_nodes) /\ status(NodeOf(h)) = 0
    /\ \E h \in Hosts : StagesAchieved(h, {"identify", "filter", "versions", "block_info"}) = 4
                           /\ status(NodeOf(h)) = 3


--------------------------------------------------------------------------
(* The retry penalty of score_node.                                        *)

\* the attempts beyond the first, summed over the entries of the tries map
\* that needed more than one
AttemptsBeyondFirst(n) ==
    SumOver([k \in DOMAIN n.tries |-> n.tries[k] - 1],
            {k \in DOMAIN n.tries : n.tries[k] > 1})

\* no other deduction applies to n: every method test passed and there is
\* no block time to compare
OnlyRetriesCount(n) ==
    /\ status(n) > 0
    /\ n.broken_plugins = <<>>
    /\ ~HasBlockTime(n)

\* C22: score_node subtracts 2 points per attempt beyond the first:
\* total_retries is the sum of (attempts - 1) over the entries with more
\* than one attempt, and a node with no other deduction scores its base
\* score minus twice that sum (not below 0).
C22_TwoPerRetry ==
    probe # NoProbe =>
        /\ total_retries(probe) = AttemptsBeyondFirst(probe)
        /\ OnlyRetriesCount(probe) =>
              \A m \in {1, max_score} :
                  Score(m, probe) = Clamp(BaseScore(status(probe))
                                            - 2 * AttemptsBeyondFirst(probe))


--------------------------------------------------------------------------
(* The staleness penalty of score_node.                                    *)

\* the percentage of MAX_SCORE a block that is secs seconds old costs
StaleFraction(secs) ==
    IF secs > 24 * 3600 THEN 80
    ELSE IF secs > 3600 THEN 50
    ELSE IF secs > 10 * 60 THEN 30
    ELSE IF secs > 5 * 60 THEN 15
    ELSE IF secs > 60 THEN 10
    ELSE IF secs > 30 THEN 5
    ELSE 0

\* the score of n before the staleness penalty, less floor(f x MAX_SCORE)
PostPenalty(n) ==
    PrePenalty(n, plugins_on) - ((max_score * StaleFraction(time_behind(n))) \div 100)

\* C23: for a node with a block time whose score after the staleness
\* penalty is not below 10% of MAX_SCORE, the final score is the score
\* before the penalty minus floor(f x MAX_SCORE), f being 0.8 above 24 h,
\* 0.5 above 1 h, 0.3 above 10 min, 0.15 above 5 min, 0.10 above 1 min,
\* 0.05 above 30 s and 0 otherwise.
C23_PenaltyTable ==
    (probe # NoProbe /\ status(probe) > 0 /\ HasBlockTime(probe)
        /\ 10 * PostPenalty(probe) >= max_score)
        => /\ \A m \in {1, max_score} : Score(m, probe) = PostPenalty(probe)
           /\ scored # NoScore => scored.result[1] = PostPenalty(probe)

\* a node with 3 stages, no retries, every method test passed and a block
\* more than an hour old was scored MAX_SCORE - floor(0.5 x MAX_SCORE)
C23_Witness ==
    /\ scored # NoScore
    /\ status(probe) = 3 /\ total_retries(probe) = 0
    /\ plugins_on /\ Len(probe.plugins) = Len(TEST_PLUGINS_LIST) /\ probe.broken_plugins = <<>>
    /\ probe.block_time = "stale3601"
    /\ scored.result[1] = max_score - (max_score \div 2)


--------------------------------------------------------------------------
(* The floor-rescue of score_node.                                         *)

\* the score of n right after the staleness penalty, before the rescue
Penalised(n) == PrePenalty(n, plugins_on) - StalePenalty(time_behind(n))

\* the rescue block runs for n: n has a block time that is not scanned_at
\* itself, and the penalised score is below 10% of MAX_SCORE
RescueRuns(n) ==
    /\ n # NoProbe /\ status(n) > 0
    /\ HasBlockTime(n) /\ time_behind(n) # 0
    /\ Penalised(n) < Pct(10)

\* the final score by tiers: the first tier the pre-penalty score exceeds
Tiered(post, pre) ==
    IF pre > Pct(80) THEN Pct(20)
    ELSE IF pre > Pct(50) THEN Pct(10)
    ELSE IF pre > Pct(20) THEN Pct(5)
    ELSE Clamp(post)

\* C24: when the score after the staleness penalty is below 10% of
\* MAX_SCORE, the final score is 20% of MAX_SCORE for a pre-penalty score
\* above 80%, otherwise 10% for one above 50%, otherwise 5% for one above
\* 20%, otherwise the penalised score clamped at 0.
C24_RescueTiers ==
    RescueRuns(probe) =>
        \A m \in {1, max_score} :
            Score(m, probe) = Tiered(Penalised(probe), PrePenalty(probe, plugins_on))

\* C25: the floor-rescue never lowers a score: the score after the rescue
\* step is at least the score right after the staleness penalty.
C25_RescueNeverLowers ==
    RescueRuns(probe) =>
        Rescue(Penalised(probe), PrePenalty(probe, plugins_on)) >= Penalised(probe)


--------------------------------------------------------------------------
(* The entries of a node's tries map.                                      *)

\* the task whose attempt count is stored under key k of the tries map of h
TaskOfKey(h, k) ==
    IF k \in {"ident", "config", "props"} THEN T(k, h)
    ELSE <<"plugin", h, CHOOSE m \in Methods : PluginKey(m) = k>>

\* the keys the stages and plugin_test write
TriesKeySet == {"ident", "config", "props"} \cup {PluginKey(m) : m \in Methods}

\* a step wrote ns['tries'][k] for node h
TriesWritten(h, k) ==
    /\ h \in DOMAIN node_status /\ h \in DOMAIN node_status'
    /\ k \notin DOMAIN node_status[h].tries
    /\ k \in DOMAIN node_status'[h].tries

\* the call behind the entry returned a result (for a method test: one that
\* passed the test's checks), with this attempt count
ReturnedWith(tk, k, n) ==
    /\ tk.pc = "ok" /\ tk.tries = n
    /\ k \notin {"ident", "config", "props"} => tk.res = "valid"

\* C26: in every state of a scan, every entry of a node's tries map is an
\* integer from 1 to MAX_TRIES under one of the keys ident, config, props,
\* plugin_*, and an entry is written only for a call that returned
\* successfully, with the attempt count of that call.
C26_TriesEntries ==
    /\ [](\A h \in DOMAIN node_status :
             /\ DOMAIN node_status[h].tries \subseteq TriesKeySet
             /\ \A k \in DOMAIN node_status[h].tries :
                   node_status[h].tries[k] \in 1..MAX_TRIES)
    /\ [][\A h \in Hosts : \A k \in TriesKeySet :
             TriesWritten(h, k) =>
                 \/ ReturnedWith(task[TaskOfKey(h, k)], k, node_status'[h].tries[k])
                 \/ ReturnedWith(task'[TaskOfKey(h, k)], k, node_status'[h].tries[k])]_vars

\* a finished scan with an entry of MAX_TRIES attempts, an entry of one
\* attempt, and a call that failed and left no entry (a version call that
\* never returned or a method test that did not pass)
C26_Witness ==
    /\ pc.stage = "done"
    /\ \E h \in Hosts : \E k \in DOMAIN node_status[h].tries :
          node_status[h].tries[k] = MAX_TRIES
    /\ \E h \in Hosts : \E k \in DOMAIN node_status[h].tries : node_status[h].tries[k] = 1
    /\ \/ \E h \in Hosts : InList(h, ver_nodes) /\ "config" \notin DOMAIN node_status[h].tries
       \/ \E h \in Hosts : \E m \in Methods :
             InList(m, node_status[h].broken_plugins)
                /\ PluginKey(m) \notin DOMAIN node_status[h].tries


--------------------------------------------------------------------------
(* NodeStatus.status over the steps of a scan.                             *)

\* C27: len(raw) of every node never decreases from one step of a scan to
\* the next; no step removes a key from a node's raw data.
C27_StatusNeverDecreases ==
    [][\A h \in DOMAIN node_status :
          /\ h \in DOMAIN node_status'
          /\ status(node_status'[h]) >= status(node_status[h])
          /\ node_status[h].raw \subseteq node_status'[h].raw]_vars

\* a finished scan in which a stage raised for a node that already had raw
\* data, next to a node that went up to status 3
C27_Witness ==
    /\ pc.stage = "done"
    /\ \E h \in Hosts : VersionFailed(h) /\ status(node_status[h]) >= 1
    /\ \E h \in Hosts : status(node_status[h]) = 3


--------------------------------------------------------------------------
(* The keys of a node's raw data.                                          *)

\* the `except` clause of scan_block_info ran for h, or its body raised
\* before recording anything
BlockInfoFailed(h) ==
    \E i \in 1..Len(prop_nodes) :
        /\ prop_nodes[i] = h /\ TurnDone("block_info", i)
        /\ "props" \notin node_status[h].raw

\* C28: in every state of a scan, the keys of a node's raw data are among
\* init_props, config and props, so its status is from 0 to 3; config or
\* props is present only with init_props; status >= 1 holds exactly for
\* the nodes whose filter call succeeded; status 1 means that neither the
\* version nor the block-info stage recorded a result, and after the scan
\* that both failed.
C28_RawKeys ==
    \A h \in DOMAIN node_status :
        LET raw == node_status[h].raw
        IN  /\ raw \subseteq {"init_props", "config", "props"}
            /\ status(node_status[h]) \in 0..3
            /\ raw # {} => "init_props" \in raw
            /\ status(node_status[h]) >= 1 <=> InList(h, ver_nodes) /\ InList(h, prop_nodes)
            /\ status(node_status[h]) = 1 =>
                  /\ StagesAchieved(h, {"versions", "block_info"}) = 0
                  /\ pc.stage = "done" => VersionFailed(h) /\ BlockInfoFailed(h)

\* a finished scan with a node of status 1, whose version and block-info
\* calls both failed, and a node of status 0 that failed the filter
C28_Witness ==
    /\ pc.stage = "done"
    /\ \E h \in Hosts : status(node_status[h]) = 1 /\ VersionFailed(h) /\ BlockInfoFailed(h)
    /\ \E h \in Hosts : status(node_status[h]) = 0 /\ FilterFailed(h)


--------------------------------------------------------------------------
(* Which nodes receive JSON-RPC calls.                                     *)

\* this step is the turn of filter_badnodes in which `await blkdata`
\* returned for h
FilterReturned(h) ==
    task[T("filter", h)].pc = "ok" /\ task'[T("filter", h)].pc = "awaited"

\* the JSON-RPC calls of a scan for node h: everything but the identify GET
RpcTasks(h) == {t \in TaskIds : HostOf(t) = h /\ Kind(t) # "ident"}

\* the identify probe of h ended in ServerDead: the task raised it, or the
\* turn of identify_nodes for h is over and h was not added to up_nodes
IdentDead(h) == task[T("ident", h)].pc = "dead" \/ IdentFailed(h)

\* C29: the version call and the block-info call of a node are issued
\* exactly when its filter call returned, both in that turn of
\* filter_badnodes, and a node whose identify probe ended in ServerDead
\* never gets a JSON-RPC call.
C29_FilterGatesCalls ==
    /\ [][\A h \in Hosts :
             /\ (Created(T("config", h)) \/ Created(T("props", h))) => FilterReturned(h)
             /\ FilterReturned(h) => Created(T("config", h)) /\ Created(T("props", h))]_vars
    /\ [](\A h \in Hosts :
             /\ (task[T("config", h)].pc # "none" <=> InList(h, ver_nodes))
             /\ (task[T("props", h)].pc # "none" <=> InList(h, prop_nodes))
             /\ IdentDead(h) => \A t \in RpcTasks(h) : task[t].pc = "none")

\* a finished scan with a node whose filter call raised and that never got
\* a version or block-info call, next to a node that passed the filter and
\* got both
C29_Witness ==
    /\ pc.stage = "done"
    /\ \E h \in Hosts : /\ FilterFailed(h)
                        /\ task[T("config", h)].pc = "none" /\ task[T("props", h)].pc = "none"
    /\ \E h \in Hosts : /\ "init_props" \in node_status[h].raw
                        /\ task[T("config", h)].pc = "awaited"
                        /\ task[T("props", h)].pc = "awaited"


--------------------------------------------------------------------------
(* A node of unknown server type.                                          *)

\* the identify probe of h returned no server type: _ident_response found
\* none of its markers, identify_nodes stores None as srvtype
UnknownType(h) ==
    \/ task[T("ident", h)].pc = "ok" /\ task[T("ident", h)].res = "None"
    \/ h \in DOMAIN node_status /\ node_status[h].srvtype = "None"

\* C30: a node whose identify probe is classified unknown is never added to
\* up_nodes, never gets a JSON-RPC call, keeps status 0 and scores 0 (DEAD)
\* when the scan is over.
C30_UnknownIsTerminal ==
    \A h \in DOMAIN node_status :
        UnknownType(h) =>
            /\ ~Identified(h)
            /\ \A t \in RpcTasks(h) : task[t].pc = "none"
            /\ status(node_status[h]) = 0
            /\ pc.stage = "done" =>
                  \A m \in {1, max_score} :
                      score_node(m, NodeOf(h), plugins_on) = <<0, 1, "DEAD">>

\* a finished scan with a node of unknown type, whose identify call
\* returned on its first attempt, next to a node that passed every stage
C30_Witness ==
    /\ pc.stage = "done"
    /\ \E h \in Hosts : /\ node_status[h].srvtype = "None"
                        /\ "ident" \in DOMAIN node_status[h].tries
                        /\ node_status[h].tries["ident"] = 1
                        /\ score_node(1, NodeOf(h), plugins_on)[3] = "DEAD"
    /\ \E h \in Hosts : status(node_status[h]) = 3


--------------------------------------------------------------------------
(* Bodies with a jussi_num field.                                          *)

\* C31 as stated: every body with a jussi_num field is classified jussi,
\* whatever else it contains.
C31_JussiAlways ==
    (ident.pc \in {"returned", "raised"} /\ ident.body.jussi_num)
        => ident.result = "jussi"

\* C31, amended: a body with a jussi_num field that the classifier gets as
\* a dict, with no error member or one that is an object, is classified
\* jussi whatever text markers it contains, unless its error message is
\* 'End Of File:stringstream': that test comes first and gives appbase.
\* In the text of an error response the field is not seen at all.
C31_JussiUnlessEofError ==
    (ident.pc = "returned" /\ ident.body.jussi_num) =>
        /\ (ident.decoded /\ ident.body.errmsg \in {"none", "other"}) => ident.result = "jussi"
        /\ (ident.decoded /\ ident.body.errmsg = "eof") => ident.result = "appbase"
        /\ ~ident.decoded => ident.result # "jussi"

\* bodies with jussi_num were classified: one with both text markers as
\* jussi, or one with the end-of-file error message as appbase
C31_Witness ==
    /\ ident.pc = "returned" /\ ident.decoded /\ ident.body.jussi_num
    /\ \/ ident.body.errmsg = "eof" /\ ident.result = "appbase"
       \/ ident.body.eoftext /\ ident.body.legacytext /\ ident.result = "jussi"


--------------------------------------------------------------------------
(* err_reason of a node.                                                   *)

StageKinds == {"ident", "filter", "config", "props"}

\* this step is the turn of a stage loop whose `await` for h raised the
\* ServerDead of a 426 reply (ws) or of MAX_TRIES failed attempts (~ws)
DeadAwaited(h, ws) ==
    \E k \in StageKinds :
        /\ task[T(k, h)].pc = "dead" /\ task[T(k, h)].ws = ws
        /\ task'[T(k, h)].pc = "awaited"

\* C32: a node's err_reason becomes 'WS Only' exactly in the turn of the
\* identify, filter, version or block-info stage whose call ended with the
\* 426 error; a call that ran out of tries leaves err_reason as it was (not
\* set, for a node with no 426); once set, err_reason is never cleared.
C32_WSOnlyReason ==
    [][\A h \in DOMAIN node_status :
          /\ h \in DOMAIN node_status'
          /\ (~WSOnly(h) /\ node_status'[h].err_reason = "WS Only") => DeadAwaited(h, TRUE)
          /\ DeadAwaited(h, TRUE) => node_status'[h].err_reason = "WS Only"
          /\ DeadAwaited(h, FALSE) => node_status'[h].err_reason = node_status[h].err_reason
          /\ WSOnly(h) => node_status'[h].err_reason = "WS Only"
          /\ node_status'[h].err_reason \in {"None", "WS Only"}]_vars

\* a finished scan in which one node got the 426 at identify and the other
\* at its version or block-info call
C32_Witness ==
    /\ pc.stage = "done"
    /\ \E h \in Hosts : WSOnly(h) /\ IdentFailed(h)
    /\ \E h \in Hosts : WSOnly(h) /\ InList(h, ver_nodes)


--------------------------------------------------------------------------
(* Termination of scan_nodes.  The event loop resumes every coroutine that *)
(* is ready, and every request and every retry delay is taken to end, so   *)
(* a step that is possible is eventually taken.                            *)

SpecFair == Spec /\ WF_vars(Next)

\* C33: when every attempt and every retry delay ends, scan_nodes returns,
\* with and without the method tests, and no call it issued makes more
\* than MAX_TRIES attempts.
C33_ScanTerminates ==
    /\ <>(pc.stage = "done")
    /\ [](\A t \in TaskIds : task[t].calls <= MAX_TRIES /\ task[t].tries <= MAX_TRIES)

\* scan_nodes returned after method tests were run, one node having been
\* dropped at identify after MAX_TRIES failed attempts
C33_Witness ==
    /\ pc.stage = "done"
    /\ plugins_on /\ pt_list # <<>>
    /\ \E h \in Hosts : IdentFailed(h) /\ ~WSOnly(h) /\ node_status[h].srvtype = "err"


--------------------------------------------------------------------------
(* The retry delay of _try_node and _ident_jussi.                          *)

\* C34: within one call of either wrapper, every attempt that fails with a
\* non-426 error is followed by exactly one sleep of RETRY_DELAY, after
\* which the next attempt starts or ServerDead is raised; an attempt that
\* returns or ends on a 426 is followed by no sleep.
C34_OneDelayPerFailure ==
    /\ [](\A t \in TaskIds :
             task[t].sleeps = task[t].fails - (IF task[t].pc = "sleep" THEN 1 ELSE 0))
    /\ [][\A t \in TaskIds :
             /\ task'[t].fails = task[t].fails + 1
                   => task[t].pc = "run" /\ task'[t].pc = "sleep"
                        /\ task'[t].sleeps = task[t].sleeps
             /\ (task[t].pc = "sleep" /\ task'[t] # task[t])
                   => /\ task'[t].sleeps = task[t].sleeps + 1
                      /\ task'[t].fails = task[t].fails
                      /\ \/ task'[t].pc = "run" /\ task'[t].calls = task[t].calls + 1
                         \/ task'[t].pc = "dead" /\ ~task'[t].ws
                              /\ task'[t].calls = task[t].calls
             /\ task[t].pc \in {"ok", "dead"} => task'[t] = task[t]]_vars

\* one call returned on its last attempt after MAX_TRIES - 1 delays, the
\* other raised ServerDead after MAX_TRIES delays
C34_Witness ==
    /\ \E t \in CallIds : task[t].pc = "ok" /\ task[t].sleeps = MAX_TRIES - 1
    /\ \E t \in CallIds : task[t].pc = "dead" /\ ~task[t].ws /\ task[t].sleeps = MAX_TRIES


--------------------------------------------------------------------------
(* What is retried: error responses, not validation failures.              *)

\* the reply of a node that answers with a JSON-RPC error object, and the
\* one of a request that failed in transport
ErrorResponse == [ok |-> FALSE, what |-> "rpcerror"]

TransportFailure == [ok |-> FALSE, what |-> "neterr"]

--------------------------------------------------------------------------
(* The account-history method tests on their own: test_account_history and *)
(* test_condenser_history on every history of up to MaxHist entries.       *)

MaxHist == 6

\* an entry of the history list: a pair (int, dict), a pair with another
\* type in one of the two places, a list of one integer
EntryShapes == {"pair", "badtype", "short"}

Histories == UNION {[1..n -> EntryShapes] : n \in 0..MaxHist}

\* MethodTests._check_hist(response): "pass" when it returns, else the
\* exception it raises
check_hist(response) ==
    IF Len(response) = 0 THEN "IndexError"
    ELSE IF response[1] = "short" THEN "IndexError"
    ELSE IF response[1] = "badtype" THEN "ValidationError"
    ELSE IF Len(response) < 5 THEN "ValidationError"
    ELSE "pass"

\* the two tests once rpc returned: test_account_history looks for the
\* 'history' key first, test_condenser_history takes the result as the list
test_history(api, has_history, history) ==
    IF api = "account_history_api" /\ ~has_history THEN "ValidationError"
    ELSE check_hist(history)

InitHist ==
    /\ AtRest
    /\ ident = NoCall
    /\ table = NoCall
    /\ \E api \in {"account_history_api", "condenser_api"}, k \in BOOLEAN, h \in Histories :
          /\ api = "condenser_api" => k
          /\ mt = [pc |-> "validating", api |-> api, has_history |-> k, history |-> h,
                   outcome |-> "-"]

\* the lines of the test after `await rpc(...)`
TestHistory ==
    /\ mt.pc = "validating"
    /\ mt' = [mt EXCEPT !.pc = "tested",
                        !.outcome = test_history(mt.api, mt.has_history, mt.history)]
    /\ UNCHANGED <<task, scanVars, plugins_on, max_score, faults, probe, scored, ident, table>>

NextHist == TestHistory

SpecHist == InitHist /\ [][NextHist]_vars

\* C36: an account-history test passes only if the history has at least 5
\* entries and every entry is a pair (integer, object); a history with a
\* malformed entry, and an empty history, make it raise ValidationError.
C36_EveryEntryChecked ==
    mt.pc = "tested" =>
        LET h         == mt.history
            malformed == \E i \in 1..Len(h) : h[i] # "pair"
        IN  /\ mt.outcome = "pass" => Len(h) >= 5 /\ ~malformed
            /\ (malformed \/ Len(h) = 0) => mt.outcome = "ValidationError"


--------------------------------------------------------------------------
(* host_sorter on the typed columns.                                       *)

\* RPCScanner.table_types without the pseudo-type of api_tests
table_types ==
    [ssl |-> "bool", block_time |-> "datetime", res_time |-> "Decimal",
     head_block |-> "int", avg_retries |-> "Decimal"]

\* what host_sorter(host, key) returns for a key of table_types: the type of
\* the value, or the exception raised.  ssl is a bool computed from the
\* host name; res_time is None for a node without timings (they are written
\* together with the attempt counts), which gives the Decimal fallback.
typed_host_sorter(h, n, key) ==
    IF key \in {"ssl", "res_time"} THEN [exc |-> FALSE, type |-> table_types[key]]
    ELSE [exc |-> host_sorter(n, key).exc,
          type |-> IF host_sorter(n, key).exc THEN "-" ELSE table_types[key]]

\* C37: for every key of table_types and every node of a finished scan,
\* dead nodes without timings or attempt counts included, host_sorter
\* returns a value of the column's type and never raises.
C37_TypedKeysTotal ==
    table.pc \in {"returned", "raised"} =>
        \A h \in Hosts : \A key \in DOMAIN table_types :
            LET r == typed_host_sorter(h, table.node_status[h], key)
            IN  ~r.exc /\ r.type = table_types[key]


\* C38: once scan_nodes has returned, get_node and node_objs build a
\* NodeStatus for every scanned host without raising, whatever the node
\* answered, a block-info reply without time or head_block_number included.
C38_NodesBuildable ==
    pc.stage = "done" => \A h \in Hosts : Buildable(h)


--------------------------------------------------------------------------
(* The single-node scan command *)

\* A single-node scan that reports DEAD by the stages passed, not the score.
scan_dead_by_status(min_score, n, plugins) ==
    LET r == score_node(min_score, n, plugins)
    IN  IF status(n) <= 0 THEN [status |-> "DEAD", code |-> 1]
        ELSE [status |-> r[3], code |-> r[2]]

\* health._scan: the status line the command prints and its exit code
scan(min_score, n, plugins) ==
    LET r == score_node(min_score, n, plugins)
    IN  IF r[1] = 0 THEN [status |-> "DEAD", code |-> 1]
        ELSE [status |-> r[3], code |-> r[2]]

\* C39 as stated: the single-node scan reports 'Status: DEAD' with exit code 1 only
\* for a node that passed no stage; a node that passed at least one stage
\* is reported with score_node's label BAD, GOOD or PERFECT and exits with
\* the bad or the good return code.
C39_DeadOnlyWithoutStages ==
    scored # NoScore =>
        LET out == scan(scored.min_score, probe, plugins_on)
        IN  /\ out.status = "DEAD" => status(probe) = 0
            /\ status(probe) > 0 =>
                  /\ out.status = scored.result[3]
                  /\ out.status \in {"BAD", "GOOD", "PERFECT"}
                  /\ out.code = scored.result[2]
                  /\ out.code \in {BAD_RETURN_CODE, GOOD_RETURN_CODE}


\* C39, amended: the single-node scan reports 'Status: DEAD' with exit code
\* 1 exactly when score_node returns score 0, which covers every node that
\* passed no stage and also a node that passed stages and whose penalties
\* bring its score to 0; a node with a score above 0 is reported with
\* score_node's label BAD, GOOD or PERFECT and exits with the bad or the
\* good return code.
C39_DeadIffScoreZero ==
    scored # NoScore =>
        LET out == scan(scored.min_score, probe, plugins_on)
        IN  /\ (out.status = "DEAD" /\ out.code = 1) <=> scored.result[1] = 0
            /\ status(probe) = 0 => out.status = "DEAD"
            /\ scored.result[1] > 0 =>
                  /\ out.status = scored.result[3]
                  /\ out.status \in {"BAD", "GOOD", "PERFECT"}
                  /\ out.code = scored.result[2]
                  /\ out.code \in {BAD_RETURN_CODE, GOOD_RETURN_CODE}

C39_Witness ==
    /\ scored # NoScore
    /\ status(probe) > 0
    /\ scored.result[1] = 0
    /\ scored.result[3] = "BAD"
    /\ scan(scored.min_score, probe, plugins_on) = [status |-> "DEAD", code |-> 1]


--------------------------------------------------------------------------
(* The -s option of the scan and list commands *)

\* C40: the scan and list commands reject every min_score below 1 or above
\* MAX_SCORE with 'Minimum score must be between 1 and MAX_SCORE', and no
\* node is scanned and scored under such a min_score.
C40_OutOfRangeRejected ==
    scored # NoScore =>
        /\ 1 <= scored.min_score /\ scored.min_score <= max_score
        /\ \A m \in MinScores : (m < 1 \/ m > max_score) => min_score_rejected(m)

==========================================================================
